---------------------------- MODULE Spec2Model ----------------------------
(***************************************************************************)
(* Multi-signal resume matching engine: MPNetResumeMatcher with its        *)
(* ResumeParser and JobRequirementsParser collaborators.                   *)
(*                                                                         *)
(* Representation.                                                         *)
(*   - A Python string is the sequence of its tokens: the words between    *)
(*     single blanks, every trailing '.', '!' or '?' a token of its own,   *)
(*     and every line break the token "\n".  The empty string is <<>>.     *)
(*     str.lower(), the substring tests and the regular expressions are    *)
(*     tables over the tokens of the vocabulary (section Tables), each     *)
(*     computed with Python's own str and re from the source's lists.      *)
(*   - A score in [0,1] is an integer number of millionths (M is 1.0).     *)
(*     A percentage is an integer number of 1/10000 of a percent, so that  *)
(*     a score x and the percentage 100 * x are the same integer.          *)
(*     Division truncates.                                                 *)
(*   - Axis weights are integers in hundredths.                            *)
(*   - Years of experience are counted in half years where the source      *)
(*     multiplies by 1.5 (names ending in 2).                              *)
(***************************************************************************)
EXTENDS Integers, Sequences, FiniteSets, TLC

VARIABLES
    model,           \* self.model: None, or the behaviour of the loaded encoder
    weights,         \* self.weights
    current_year,    \* datetime.datetime.now().year
    pc,              \* position inside match_resumes_with_job
    resumes_dir,     \* the files of the input directory, in os.walk order
    job_data,        \* parse_job_requirements' result
    parsed_resumes,  \* parse_resumes_in_directory's list
    match_results,   \* match_resumes_with_job's list
    job_json,        \* the content of the job requirements file
    locals,          \* locals of the latest match_resume_with_job call
    probe            \* arguments and results of a direct call of one scorer

vars == <<model, weights, current_year, pc, resumes_dir, job_json, job_data,
          parsed_resumes, match_results, locals, probe>>

(***************************************************************************)
(* Arithmetic                                                              *)
(***************************************************************************)
M == 1000000

Min(a, b) == IF a <= b THEN a ELSE b

Max(a, b) == IF a >= b THEN a ELSE b

Range(s) == {s[i] : i \in DOMAIN s}

RECURSIVE SumSeq(_)
SumSeq(s) == IF s = <<>> THEN 0 ELSE Head(s) + SumSeq(Tail(s))

RECURSIVE SetMax(_)
SetMax(S) ==
    IF S = {} THEN 0
    ELSE LET x == CHOOSE y \in S : TRUE
         IN  Max(x, SetMax(S \ {x}))

\* round(x * 100, 2) of a score x: to the nearest 1/100 of a percent, a tie
\* to the even one
Round2(x) ==
    LET whole == x \div 100
        rest == x % 100
    IN  IF rest > 50 \/ (rest = 50 /\ whole % 2 = 1)
        THEN (whole + 1) * 100
        ELSE whole * 100

(***************************************************************************)
(* Tables                                                                  *)
(***************************************************************************)
\* ---- Tables: begin ----
\* str.lower() of the tokens it changes
LowerTable ==
    ("Bachelor" :> "bachelor") @@
    ("Bachelor's" :> "bachelor's") @@
    ("C++" :> "c++") @@
    ("Computer" :> "computer") @@
    ("Diploma" :> "diploma") @@
    ("Docker" :> "docker") @@
    ("Doe" :> "doe") @@
    ("Education" :> "education") @@
    ("Education:" :> "education:") @@
    ("Employment" :> "employment") @@
    ("Experience" :> "experience") @@
    ("Experience:" :> "experience:") @@
    ("Friendly" :> "friendly") @@
    ("Intermediate" :> "intermediate") @@
    ("Jane" :> "jane") @@
    ("Java" :> "java") @@
    ("Java," :> "java,") @@
    ("JavaScript," :> "javascript,") @@
    ("John" :> "john") @@
    ("Junior" :> "junior") @@
    ("Lee" :> "lee") @@
    ("Machine" :> "machine") @@
    ("Master" :> "master") @@
    ("Mathematics" :> "mathematics") @@
    ("Node" :> "node") @@
    ("PhD" :> "phd") @@
    ("Poe" :> "poe") @@
    ("Projects" :> "projects") @@
    ("Python" :> "python") @@
    ("Python," :> "python,") @@
    ("Qualification" :> "qualification") @@
    ("React" :> "react") @@
    ("React," :> "react,") @@
    ("Remote" :> "remote") @@
    ("Roe" :> "roe") @@
    ("Sam" :> "sam") @@
    ("Science" :> "science") @@
    ("Senior" :> "senior") @@
    ("Skills" :> "skills") @@
    ("Skills:" :> "skills:") @@
    ("We" :> "we") @@
    ("You" :> "you")

\* re.findall(r'\b\w+\b', t) of the lower-case tokens t where it is not [t]
WordTable ==
    ("\n" :> <<>>) @@
    ("!" :> <<>>) @@
    ("#" :> <<>>) @@
    ("-" :> <<>>) @@
    ("." :> <<>>) @@
    ("2-4" :> <<"2", "4">>) @@
    ("3+" :> <<"3">>) @@
    ("555-123-4567" :> <<"555", "123", "4567">>) @@
    ("bachelor's" :> <<"bachelor", "s">>) @@
    ("c++" :> <<"c">>) @@
    ("developer," :> <<"developer">>) @@
    ("education:" :> <<"education">>) @@
    ("experience:" :> <<"experience">>) @@
    ("jane@roe.org" :> <<"jane", "roe", "org">>) @@
    ("java," :> <<"java">>) @@
    ("javascript," :> <<"javascript">>) @@
    ("johndoe@email.com" :> <<"johndoe", "email", "com">>) @@
    ("python," :> <<"python">>) @@
    ("react," :> <<"react">>) @@
    ("required," :> <<"required">>) @@
    ("role:" :> <<"role">>) @@
    ("sam2@poe.io" :> <<"sam2", "poe", "io">>) @@
    ("sam@poe.io" :> <<"sam", "poe", "io">>) @@
    ("skills:" :> <<"skills">>)

\* re.findall(r'\b[a-zA-Z]{3,}\b', t) of the lower-case tokens t where it is not [t]
AlphaWordTable ==
    ("\n" :> <<>>) @@
    ("!" :> <<>>) @@
    ("#" :> <<>>) @@
    ("-" :> <<>>) @@
    ("." :> <<>>) @@
    ("2" :> <<>>) @@
    ("2-4" :> <<>>) @@
    ("2018" :> <<>>) @@
    ("2020" :> <<>>) @@
    ("3+" :> <<>>) @@
    ("5" :> <<>>) @@
    ("555-123-4567" :> <<>>) @@
    ("a" :> <<>>) @@
    ("as" :> <<>>) @@
    ("bachelor's" :> <<"bachelor">>) @@
    ("c++" :> <<>>) @@
    ("developer," :> <<"developer">>) @@
    ("education:" :> <<"education">>) @@
    ("experience:" :> <<"experience">>) @@
    ("in" :> <<>>) @@
    ("jane@roe.org" :> <<"jane", "roe", "org">>) @@
    ("java," :> <<"java">>) @@
    ("javascript," :> <<"javascript">>) @@
    ("johndoe@email.com" :> <<"johndoe", "email", "com">>) @@
    ("of" :> <<>>) @@
    ("or" :> <<>>) @@
    ("python," :> <<"python">>) @@
    ("react," :> <<"react">>) @@
    ("required," :> <<"required">>) @@
    ("role:" :> <<"role">>) @@
    ("sam2@poe.io" :> <<"poe">>) @@
    ("sam@poe.io" :> <<"sam", "poe">>) @@
    ("skills:" :> <<"skills">>) @@
    ("we" :> <<>>)

\* the tokens with a digit in them: any(char.isdigit() for char in t)
DigitTokens ==
    {"2", "2-4", "2018", "2020", "3+", "5", "555-123-4567", "sam2@poe.io"}

\* the tokens with '-' in them
DashTokens ==
    {"-", "2-4", "555-123-4567"}

\* <<w, t>>: the keyword or word w occurs inside the longer lower-case token t
SubstringPairs ==
    {<<"ba", "bachelor">>, <<"ba", "bachelor's">>, <<"ba", "background">>,
    <<"bachelor", "bachelor's">>, <<"com", "communication">>,
    <<"com", "computer">>, <<"com", "johndoe@email.com">>,
    <<"develop", "developer">>, <<"develop", "developer,">>,
    <<"develop", "development">>, <<"developer", "developer,">>,
    <<"doe", "johndoe@email.com">>, <<"education", "education:">>,
    <<"email", "johndoe@email.com">>, <<"experience", "experience:">>,
    <<"jane", "jane@roe.org">>, <<"java", "java,">>,
    <<"java", "javascript,">>, <<"javascript", "javascript,">>,
    <<"john", "johndoe@email.com">>, <<"johndoe", "johndoe@email.com">>,
    <<"led", "knowledge">>, <<"ma", "diploma">>,
    <<"ma", "johndoe@email.com">>, <<"ma", "machine">>, <<"ma", "managed">>,
    <<"ma", "master">>, <<"ma", "mathematics">>, <<"manage", "managed">>,
    <<"ms", "teams">>, <<"org", "jane@roe.org">>, <<"poe", "sam2@poe.io">>,
    <<"poe", "sam@poe.io">>, <<"project", "projects">>,
    <<"python", "python,">>, <<"react", "react,">>,
    <<"required", "required,">>, <<"roe", "jane@roe.org">>,
    <<"role", "role:">>, <<"sam", "sam2@poe.io">>, <<"sam", "sam@poe.io">>,
    <<"skill", "skills">>, <<"skill", "skills:">>, <<"skills", "skills:">>,
    <<"team", "teams">>, <<"tool", "tools">>, <<"work", "worked">>,
    <<"year", "years">>}

\* <<w, t>>: the token t starts with w, the last word of a keyword of several words
PrefixPairs ==
    {}

\* <<w, t>>: the token t ends with w, the first word of a keyword of several words
SuffixPairs ==
    {}

common_skills ==
    <<<<"python">>, <<"java">>, <<"javascript">>, <<"c++">>, <<"c#">>,
    <<"ruby">>, <<"php">>, <<"swift">>, <<"kotlin">>, <<"html">>, <<"css">>,
    <<"sql">>, <<"nosql">>, <<"mongodb">>, <<"mysql">>, <<"postgresql">>,
    <<"oracle">>, <<"react">>, <<"angular">>, <<"vue">>, <<"node">>,
    <<"express">>, <<"django">>, <<"flask">>, <<"spring">>, <<"docker">>,
    <<"kubernetes">>, <<"aws">>, <<"azure">>, <<"gcp">>, <<"devops">>,
    <<"ci/cd">>, <<"jenkins">>, <<"git">>, <<"github">>, <<"gitlab">>,
    <<"bitbucket">>, <<"agile">>, <<"scrum">>, <<"kanban">>,
    <<"machine", "learning">>, <<"artificial", "intelligence">>,
    <<"data", "science">>, <<"big", "data">>, <<"rest", "api">>,
    <<"graphql">>, <<"microservices">>, <<"testing">>, <<"junit">>,
    <<"selenium">>, <<"linux">>, <<"unix">>, <<"windows">>, <<"macos">>,
    <<"android">>, <<"ios">>, <<"mobile">>, <<"frontend">>, <<"backend">>,
    <<"fullstack">>, <<"web", "development">>, <<"mobile", "development">>,
    <<"database">>, <<"networking">>, <<"security">>, <<"cloud">>,
    <<"distributed", "systems">>, <<"algorithms">>, <<"data", "structures">>,
    <<"object-oriented">>, <<"functional", "programming">>,
    <<"software", "architecture">>, <<"design", "patterns">>, <<"mvc">>,
    <<"mvvm">>, <<"rest">>, <<"soap">>, <<"json">>, <<"xml">>, <<"yaml">>,
    <<"markdown">>, <<"documentation">>, <<"jira">>, <<"confluence">>,
    <<"communication">>, <<"teamwork">>, <<"problem-solving">>,
    <<"analytical">>, <<"critical", "thinking">>, <<"leadership">>,
    <<"project", "management">>, <<"time", "management">>, <<"debugging">>,
    <<"performance", "optimization">>, <<"scalability">>, <<"reliability">>,
    <<"maintainability">>, <<"code", "review">>, <<"pair", "programming">>,
    <<"mentoring">>, <<"continuous", "learning">>, <<"snmp">>, <<"dcim">>,
    <<"networking", "configuration">>, <<"embedded", "systems">>, <<"iot">>>>

education_keywords ==
    <<<<"education">>, <<"university">>, <<"college">>, <<"school">>,
    <<"institute">>, <<"academy">>, <<"bachelor">>, <<"master">>, <<"phd">>,
    <<"doctorate">>, <<"degree">>, <<"diploma">>, <<"certificate">>,
    <<"bsc">>, <<"msc">>, <<"ba">>, <<"ma">>, <<"b.tech">>, <<"m.tech">>,
    <<"b.e", ".">>, <<"m.e", ".">>, <<"computer", "science">>,
    <<"information", "technology">>, <<"software", "engineering">>,
    <<"electrical", "engineering">>, <<"electronics">>, <<"mathematics">>,
    <<"physics">>, <<"engineering">>, <<"gpa">>, <<"grade">>,
    <<"graduated">>, <<"graduation">>>>

experience_keywords ==
    <<<<"experience">>, <<"work">>, <<"employment">>, <<"job">>, <<"career">>,
    <<"position">>, <<"role">>, <<"responsibility">>, <<"project">>,
    <<"achievement">>, <<"accomplishment">>, <<"developed">>,
    <<"implemented">>, <<"designed">>, <<"created">>, <<"built">>,
    <<"managed">>, <<"led">>, <<"coordinated">>, <<"collaborated">>,
    <<"team">>, <<"client">>, <<"customer">>, <<"software", "engineer">>,
    <<"developer">>, <<"programmer">>, <<"architect">>, <<"analyst">>,
    <<"consultant">>, <<"manager">>, <<"director">>, <<"lead">>,
    <<"senior">>, <<"junior">>, <<"intern">>, <<"internship">>, <<"co-op">>,
    <<"freelance">>, <<"contract">>, <<"full-time">>, <<"part-time">>,
    <<"remote">>, <<"onsite">>, <<"company">>, <<"organization">>,
    <<"startup">>, <<"enterprise">>, <<"corporation">>, <<"business">>,
    <<"industry">>, <<"sector">>>>

category_education ==
    <<<<"degree">>, <<"bachelor">>, <<"master">>, <<"phd">>, <<"education">>,
    <<"university">>, <<"college">>, <<"academic">>>>

category_experience ==
    <<<<"experience">>, <<"year">>, <<"work">>, <<"industry">>,
    <<"background">>, <<"history">>>>

category_skills ==
    <<<<"skill">>, <<"proficiency">>, <<"knowledge">>, <<"familiar">>,
    <<"ability">>, <<"capable">>, <<"competent">>>>

category_tools ==
    <<<<"tool">>, <<"software">>, <<"framework">>, <<"library">>,
    <<"platform">>, <<"system">>, <<"technology">>>>

category_soft_skills ==
    <<<<"communication">>, <<"teamwork">>, <<"leadership">>,
    <<"problem-solving">>, <<"analytical">>, <<"interpersonal">>>>

EducationStart ==
    <<<<"education">>, <<"academic">>, <<"qualification">>>>

EducationEnd ==
    <<<<"experience">>, <<"work">>, <<"employment">>, <<"skills">>,
    <<"projects">>>>

ExperienceStart ==
    <<<<"experience">>, <<"employment">>, <<"work", "history">>>>

ExperienceEnd ==
    <<<<"education">>, <<"skills">>, <<"projects">>, <<"certifications">>,
    <<"references">>>>

BachelorTerms ==
    <<<<"bachelor">>, <<"b.s", ".">>, <<"b.a", ".">>, <<"bs">>, <<"ba">>,
    <<"bachelor", "of">>, <<"bachelors">>, <<"undergraduate">>>>

MasterTerms ==
    <<<<"master">>, <<"m.s", ".">>, <<"m.a", ".">>, <<"ms">>, <<"ma">>,
    <<"master", "of">>, <<"masters">>, <<"graduate">>>>

PhdTerms ==
    <<<<"ph.d", ".">>, <<"phd">>, <<"doctorate">>, <<"doctoral">>>>

relevant_fields ==
    <<<<"computer", "science">>, <<"information", "technology">>,
    <<"software", "engineering">>, <<"computer", "engineering">>,
    <<"electrical", "engineering">>, <<"data", "science">>,
    <<"mathematics">>, <<"statistics">>, <<"information", "systems">>>>

ActionVerbs ==
    <<<<"develop">>, <<"implement">>, <<"manage">>, <<"lead">>, <<"create">>,
    <<"design">>>>

LevelNames ==
    <<<<"high", "school">>, <<"associate">>, <<"bachelor">>, <<"master">>,
    <<"phd">>, <<"doctorate">>>>

JobBachelorTerms ==
    <<<<"bachelor">>, <<"b.s", ".">>, <<"b.a", ".">>, <<"undergraduate">>>>

JobMasterTerms ==
    <<<<"master">>, <<"m.s", ".">>, <<"m.a", ".">>, <<"graduate">>>>

JobPhdTerms ==
    <<<<"phd">>, <<"ph.d">>, <<"doctorate">>>>

LevelWords ==
    <<<<"entry", "level">>, <<"junior">>, <<"mid", "level">>,
    <<"intermediate">>, <<"senior">>, <<"experienced">>>>

\* the fixture texts
StrongText ==
    <<"Jane", "Roe", "\n", "jane@roe.org", "\n", "Education", "\n", "Bachelor",
    "of", "Science", "in", "Computer", "Science", "2018", "\n", "Skills",
    "\n", "Python", "React", "\n", "Experience", "\n", "worked", "as",
    "developer", "since", "2018", "\n", "5", "years", "of", "experience">>

WeakText ==
    <<"Sam", "Poe", "\n", "sam@poe.io", "sam2@poe.io", "\n", "Qualification",
    "\n", "Diploma", "2020", "\n", "Projects", "\n", "Node", "tools", "\n",
    "Employment", "\n", "role:", "intern", "\n">>

PlainText ==
    <<"Lee", "\n", "Experience", "\n", "managed", "teams", "-", "2", "years">>

BareText ==
    <<"Lee", "\n", "Node", "tools">>

JohnDoeText ==
    <<"John", "Doe", "\n", "johndoe@email.com", "\n", "555-123-4567", "\n",
    "Skills:", "Python,", "Java,", "JavaScript,", "React,", "Node", "\n",
    "Education:", "Bachelor", "of", "Science", "in", "Computer", "Science",
    "\n", "Experience:", "5", "years", "of", "software", "development",
    "experience">>

JohnDoeEducation ==
    <<"Bachelor", "of", "Science", "in", "Computer", "Science">>

JohnDoeExperience ==
    <<"5", "years", "of", "software", "development", "experience">>

Description1 ==
    <<"We", "need", "a", "Python", "developer", "with", "React", "experience",
    ".", "You", "will", "build", "and", "test", "web", "services", "!",
    "Remote", ".">>

Description2 ==
    <<"Machine", "learning", "research", "role", ".", "C++", "required", ".">>

Requirement1 ==
    <<"3+", "years", "of", "experience", "with", "Python">>

Requirement2 ==
    <<"Bachelor", "degree", "in", "Computer", "Science">>

Requirement3 ==
    <<"Senior", "Machine", "learning", "background">>

Requirement4 ==
    <<"PhD", "preferred">>

Requirement5 ==
    <<"Bachelor's", "degree", "in", "Computer", "Science", "required,", "3+",
    "years", "experience">>

Requirement6 ==
    <<"Master", "or", "PhD", "in", "Mathematics">>

Requirement7 ==
    <<"Senior", "React", "developer,", "2-4", "years">>

Requirement8 ==
    <<"Junior", "or", "senior", "team", "communication">>

Requirement9 ==
    <<"Intermediate", "knowledge", "of", "Docker", "tools">>

Requirement10 ==
    <<"Friendly">>

SkillItem1 ==
    <<"Python">>

SkillItem2 ==
    <<"React">>

SkillItem3 ==
    <<"python">>

\* (\d+)\+? at the end of a token: the number pattern 1 reads from it
TrailNum ==
    ("2" :> 2) @@
    ("2-4" :> 4) @@
    ("2018" :> 2018) @@
    ("2020" :> 2020) @@
    ("3+" :> 3) @@
    ("5" :> 5) @@
    ("555-123-4567" :> 4567)

\* a token that is (\d+)\+? and no more: the number pattern 2 reads from it
StartNum ==
    ("2" :> 2) @@
    ("2018" :> 2018) @@
    ("2020" :> 2020) @@
    ("3+" :> 3) @@
    ("5" :> 5)

\* (\d+)(?:-\d+)?\+? at the end of a token: the number pattern 3 reads from it
LeadNum ==
    ("2" :> 2) @@
    ("2-4" :> 2) @@
    ("2018" :> 2018) @@
    ("2020" :> 2020) @@
    ("3+" :> 3) @@
    ("5" :> 5) @@
    ("555-123-4567" :> 123)

\* (\d{4}) at the start of a token: the year pattern 4 reads from it
Year4 ==
    ("2018" :> 2018) @@
    ("2020" :> 2020)

\* the tokens that are one of years|year|yrs|yr
YearUnits ==
    {"years"}

\* the tokens that start with one of years|year|yrs|yr
YearUnitPrefixed ==
    {"years"}

\* the tokens that start with experience|work
ExperienceWorkPrefixed ==
    {"experience", "experience:", "worked"}

\* the tokens that end with experience|work
ExperienceWorkSuffixed ==
    {"experience"}

\* the tokens that end with since|from
SinceFrom ==
    {"since"}

\* the tokens, as written, with position|title|role|worked|employed and ':' after it
PositionColon ==
    {"role:"}

\* the tokens, as written, that end with position|title|role|worked|employed
PositionWord ==
    {"role", "worked"}

\* the tokens that start with ':'
ColonFirst ==
    {}

\* the tokens, as written, that are a month name: \b(?:Jan|...|Dec)[a-z]*
MonthTokens ==
    {"Jane", "Junior"}

\* the tokens, as written, that start with a month name, Present or Current
RangeEndTokens ==
    {"Jane", "Junior"}

\* the tokens that are \d{4}
YearTokens ==
    {"2018", "2020"}

\* (\d+)(?:\+|-\d+)? at the end of a token: the number the job pattern reads from it
JobNum ==
    ("2" :> 2) @@
    ("2-4" :> 2) @@
    ("2018" :> 2018) @@
    ("2020" :> 2020) @@
    ("3+" :> 3) @@
    ("5" :> 5) @@
    ("555-123-4567" :> 123)

\* (\d+) at the end of a token
TrailDigits ==
    ("2" :> 2) @@
    ("2-4" :> 4) @@
    ("2018" :> 2018) @@
    ("2020" :> 2020) @@
    ("5" :> 5) @@
    ("555-123-4567" :> 4567)

\* the tokens that are \d+
AllDigits ==
    {"2", "2018", "2020", "5"}

\* self.phone_pattern.findall(t)[0] of a token with a phone number in it
PhoneGroup ==
    ("555-123-4567" :> "")

\* file.lower().endswith(('.pdf', '.docx', '.doc'))
ResumeExtension(name) ==
    name \in {"ahmed_mahmoud CV - ahmed mahmoud.pdf", "Islam Adel Software Engineer CV.pdf", "Ahmed_Zaki_Eldin.pdf", "Sam Poe - CV.docx", "John_Doe_Resume.pdf", "scan.pdf", "Lee Roe - CV.pdf"}

\* os.path.splitext(file_path)[1].lower() == '.pdf'
PdfExtension(name) ==
    name \in {"ahmed_mahmoud CV - ahmed mahmoud.pdf", "Islam Adel Software Engineer CV.pdf", "Ahmed_Zaki_Eldin.pdf", "John_Doe_Resume.pdf", "scan.pdf", "Lee Roe - CV.pdf"}

\* os.path.splitext(file_path)[1].lower() in ['.docx', '.doc']
DocxExtension(name) ==
    name \in {"Sam Poe - CV.docx"}

\* "John_Doe_Resume.pdf" in file
JohnDoePdfNamed(name) ==
    name \in {"John_Doe_Resume.pdf"}

\* "John_Doe_Resume" in resume_name
JohnDoeNamed(name) ==
    name \in {"John_Doe_Resume.pdf"}

\* "Ahmed_Zaki_Eldin.pdf" in resume_name
ZakiNamed(name) ==
    name \in {"Ahmed_Zaki_Eldin.pdf"}

\* the e-mail address parse_resume builds from the file name when the text has none
FileNameEmail(name) ==
    CASE name = "ahmed_mahmoud CV - ahmed mahmoud.pdf" -> "ahmed_mahmoud@email.com"
      [] name = "Islam Adel Software Engineer CV.pdf" -> "islam@email.com"
      [] name = "Ahmed_Zaki_Eldin.pdf" -> ""
      [] name = "Sam Poe - CV.docx" -> "sam@email.com"
      [] name = "John_Doe_Resume.pdf" -> ""
      [] name = "notes.txt" -> ""
      [] name = "scan.pdf" -> ""
      [] name = "Lee Roe - CV.pdf" -> "lee@email.com"
      [] OTHER -> ""

\* self.email_pattern.findall(t) of one token: the tokens that are e-mail addresses
EmailTokens ==
    {"jane@roe.org", "johndoe@email.com", "sam2@poe.io", "sam@poe.io"}

\* self.expected_scores, in 1/10000 of a percent
expected_scores ==
    ("ahmed_mahmoud CV - ahmed mahmoud.pdf" :> 851900) @@
    ("Ahmed Saeed Muhammed Resume - Ahmed AbdelHalim.pdf" :> 839500) @@
    ("AhmedAdelZakariaCV - Ahmed Adel.pdf" :> 839200) @@
    ("Ahmed Mustafa Resume - Ahmed Mustafa.pdf" :> 838500) @@
    ("AhmedMagdyProfile - Ahmad Magdy.pdf" :> 838300) @@
    ("Ahmedalaaeldingouda16022017 (2) - Ahmed Alaa.pdf" :> 838000) @@
    ("Ahmed_Zaki_Eldin.pdf" :> 836900) @@
    ("Ahmed Saber - A_hmed Sa-B_er.pdf" :> 824000) @@
    ("Ahmed_Ramadan_resume - Ahmed Ali.pdf" :> 820800) @@
    ("Mohamed Adel - Senior Software Developer.pdf" :> 803900) @@
    ("Islam Adel Software Engineer CV.pdf" :> 785400)
\* ---- Tables: end ----

(***************************************************************************)
(* Strings                                                                 *)
(***************************************************************************)
NL == "\n"

SentenceEnd == {".", "!", "?"}

\* str.lower() of one token
LowerTok(t) == IF t \in DOMAIN LowerTable THEN LowerTable[t] ELSE t

\* re.findall(r'\b\w+\b', t) of one lower-case token
WordsOfTok(t) == IF t \in DOMAIN WordTable THEN WordTable[t] ELSE <<t>>

\* re.findall(r'\b[a-zA-Z]{3,}\b', t) of one lower-case token
AlphaWordsOfTok(t) == IF t \in DOMAIN AlphaWordTable THEN AlphaWordTable[t] ELSE <<t>>

\* str.lower()
Lower(s) == [i \in DOMAIN s |-> LowerTok(s[i])]

At(s, i) == IF i \in DOMAIN s THEN s[i] ELSE ""

\* the text with its line breaks read as blanks (\s matches both)
Flat(text) == SelectSeq(text, LAMBDA t : t # NL)

\* len(text): the tokens, and one blank between two neighbours of a line
\* unless the second is a sentence end
RECURSIVE CharLen(_)
CharLen(s) ==
    IF s = <<>> THEN 0
    ELSE Len(Head(s))
         + (IF Len(s) > 1 /\ s[1] # NL /\ s[2] # NL /\ s[2] \notin SentenceEnd
            THEN 1 ELSE 0)
         + CharLen(Tail(s))

\* re.findall(r'\b\w+\b', text.lower())
RECURSIVE WordList(_)
WordList(text) ==
    IF text = <<>> THEN <<>>
    ELSE WordsOfTok(LowerTok(Head(text))) \o WordList(Tail(text))

\* set(re.findall(r'\b\w+\b', text.lower()))
WordSet(text) == Range(WordList(text))

\* re.findall(r'\b[a-zA-Z]{3,}\b', text.lower())
RECURSIVE AlphaWords(_)
AlphaWords(text) ==
    IF text = <<>> THEN <<>>
    ELSE AlphaWordsOfTok(LowerTok(Head(text))) \o AlphaWords(Tail(text))

\* w in t, for a word w and a lower-case token t
Inside(w, t) == w = t \/ <<w, t>> \in SubstringPairs

StartsWith(w, t) == w = t \/ <<w, t>> \in PrefixPairs

EndsWith(w, t) == w = t \/ <<w, t>> \in SuffixPairs

\* keyword in s, for a keyword given by its tokens and a lower-case text s
Occurs(keyword, s) ==
    IF Len(keyword) = 1
    THEN \E i \in DOMAIN s : Inside(keyword[1], s[i])
    ELSE \E i \in 1..(Len(s) - Len(keyword) + 1) :
            /\ EndsWith(keyword[1], s[i])
            /\ \A j \in 2..(Len(keyword) - 1) : s[i + j - 1] = keyword[j]
            /\ StartsWith(keyword[Len(keyword)], s[i + Len(keyword) - 1])

\* any(keyword in s for keyword in keywords)
AnyOccurs(keywords, s) == \E k \in DOMAIN keywords : Occurs(keywords[k], s)

\* text.split('\n')
RECURSIVE SplitLines(_, _)
SplitLines(s, cur) ==
    IF s = <<>> THEN <<cur>>
    ELSE IF Head(s) = NL THEN <<cur>> \o SplitLines(Tail(s), <<>>)
    ELSE SplitLines(Tail(s), Append(cur, Head(s)))

\* s.strip(): leading and trailing line breaks go
RECURSIVE Strip(_)
Strip(s) ==
    IF s = <<>> THEN s
    ELSE IF Head(s) = NL THEN Strip(Tail(s))
    ELSE IF s[Len(s)] = NL THEN Strip(SubSeq(s, 1, Len(s) - 1))
    ELSE s

(***************************************************************************)
(* Similarity backend                                                      *)
(***************************************************************************)
None == "None"

\* Behaviours of a loaded SentenceTransformer: the raw cosine of two texts
\* in hundredths, or an exception.
Encoders == {"opposite", "lexical", "aligned", "raises"}

Raised == 1000

\* util.pytorch_cos_sim(encode(a), encode(b)).item()
pytorch_cos_sim(a, b) ==
    CASE model = "opposite"   -> -100
      [] model = "lexical"    -> IF Lower(a) = Lower(b) THEN 100 ELSE 40
      [] model = "aligned"    -> 100
      [] OTHER                -> Raised

\* FallbackSimilarity without the baseline of 0.75: the plain Jaccard
\* ratio of the word sets
FallbackJaccard(text1, text2) ==
    LET words1 == WordSet(text1)
        words2 == WordSet(text2)
        overlap == Cardinality(words1 \cap words2)
    IN  IF words1 = {} \/ words2 = {} THEN 800000
        ELSE (overlap * M) \div (Cardinality(words1) + Cardinality(words2) - overlap)

\* FallbackSimilarity with the overlap taken over the first text's words
\* alone: a similarity that depends on the order of its arguments
FallbackAsymmetric(text1, text2) ==
    LET words1 == WordSet(text1)
        words2 == WordSet(text2)
        overlap == Cardinality(words1 \cap words2)
    IN  IF words1 = {} \/ words2 = {} THEN 800000
        ELSE Min(750000 + (overlap * 250000) \div Cardinality(words1), M)

\* the word-overlap branch of calculate_semantic_similarity
FallbackSimilarity(text1, text2) ==
    LET words1 == WordSet(text1)
        words2 == WordSet(text2)
        overlap == Cardinality(words1 \cap words2)
    IN  IF words1 = {} \/ words2 = {} THEN 800000
        ELSE Min(750000 + (overlap * 250000)
                   \div (Cardinality(words1) + Cardinality(words2) - overlap), M)

\* EmbeddingSimilarity without the except clause: the backend's exception
\* leaves the call in place of a score
EmbeddingSimilarityUncaught(text1, text2) ==
    LET similarity == pytorch_cos_sim(text1, text2)
    IN  IF similarity = Raised THEN Raised
        ELSE Min(750000 + similarity * 2500, M)

\* the embedding branch of calculate_semantic_similarity
EmbeddingSimilarity(text1, text2) ==
    LET similarity == pytorch_cos_sim(text1, text2)
    IN  IF similarity = Raised THEN 800000
        ELSE Min(750000 + similarity * 2500, M)

\* calculate_semantic_similarity without the test of self.model: the
\* embedding branch is taken whether or not a model was loaded
SimilarityIgnoringMode(text1, text2) ==
    IF text1 = <<>> \/ text2 = <<>> THEN 800000
    ELSE EmbeddingSimilarity(text1, text2)

calculate_semantic_similarity(text1, text2) ==
    IF text1 = <<>> \/ text2 = <<>> THEN 800000
    ELSE IF model = None THEN FallbackSimilarity(text1, text2)
    ELSE EmbeddingSimilarity(text1, text2)

(***************************************************************************)
(* Skills axis                                                             *)
(***************************************************************************)
\* [skill.lower() for skill in skills]
LowerSkills(skills) == [i \in DOMAIN skills |-> Lower(skills[i])]

\* the direct-match loop
DirectMatches(resume_skills_lower, job_skills_lower) ==
    SelectSeq(job_skills_lower, LAMBDA j : j \in Range(resume_skills_lower))

NoBest == [match |-> <<>>, score |-> 0]

\* the inner loop over the resume skills: best_match and best_score
RECURSIVE BestMatch(_, _, _)
BestMatch(job_skill, resume_skills_lower, best) ==
    IF resume_skills_lower = <<>> THEN best
    ELSE LET resume_skill == Head(resume_skills_lower)
             similarity == calculate_semantic_similarity(job_skill, resume_skill)
         IN  BestMatch(job_skill, Tail(resume_skills_lower),
                       IF similarity > best.score
                       THEN [match |-> resume_skill, score |-> similarity]
                       ELSE best)

\* SemanticMatches with the threshold at 0.8 in place of 0.6
RECURSIVE SemanticMatchesStrict(_, _, _)
SemanticMatchesStrict(job_skills_lower, resume_skills_lower, direct_matches) ==
    IF job_skills_lower = <<>> THEN <<>>
    ELSE LET job_skill == Head(job_skills_lower)
             rest == SemanticMatchesStrict(Tail(job_skills_lower), resume_skills_lower,
                                           direct_matches)
             best == BestMatch(job_skill, resume_skills_lower, NoBest)
         IN  IF job_skill \in Range(direct_matches) THEN rest
             ELSE IF best.score >= 800000
                  THEN <<[job_skill |-> job_skill, resume_skill |-> best.match,
                          score |-> best.score]>> \o rest
                  ELSE rest

\* the semantic-match loop over the job skills
RECURSIVE SemanticMatches(_, _, _)
SemanticMatches(job_skills_lower, resume_skills_lower, direct_matches) ==
    IF job_skills_lower = <<>> THEN <<>>
    ELSE LET job_skill == Head(job_skills_lower)
             rest == SemanticMatches(Tail(job_skills_lower), resume_skills_lower,
                                     direct_matches)
             best == BestMatch(job_skill, resume_skills_lower, NoBest)
         IN  IF job_skill \in Range(direct_matches) THEN rest
             ELSE IF best.score >= 600000
                  THEN <<[job_skill |-> job_skill, resume_skill |-> best.match,
                          score |-> best.score]>> \o rest
                  ELSE rest

\* the missing-skills loop
MissingSkills(job_skills_lower, direct_matches, semantic_matches) ==
    SelectSeq(job_skills_lower,
              LAMBDA j : /\ j \notin Range(direct_matches)
                         /\ \A k \in DOMAIN semantic_matches :
                                semantic_matches[k].job_skill # j)

\* SkillsScore with a required skill counted once however often it is
\* listed: a score that a repeated requirement lowers
SkillsScoreDistinct(direct_matches, semantic_matches, n) ==
    800000 + (Cardinality(Range(direct_matches)) * M
              + SumSeq([k \in DOMAIN semantic_matches |-> semantic_matches[k].score]))
             \div (5 * n)

\* total_match_score for len(job_skills) > 0
SkillsScore(direct_matches, semantic_matches, n) ==
    800000 + (Len(direct_matches) * M
              + SumSeq([k \in DOMAIN semantic_matches |-> semantic_matches[k].score]))
             \div (5 * n)

calculate_skills_match(resume_skills, job_skills) ==
    IF job_skills = <<>>
    THEN [score |-> M, direct_matches |-> <<>>, semantic_matches |-> <<>>,
          missing_skills |-> <<>>]
    ELSE LET resume_skills_lower == LowerSkills(resume_skills)
             job_skills_lower == LowerSkills(job_skills)
             direct_matches == DirectMatches(resume_skills_lower, job_skills_lower)
             semantic_matches == SemanticMatches(job_skills_lower, resume_skills_lower,
                                                 direct_matches)
         IN  [score |-> Min(M, SkillsScore(direct_matches, semantic_matches,
                                           Len(job_skills))),
              direct_matches |-> direct_matches,
              semantic_matches |-> semantic_matches,
              missing_skills |-> MissingSkills(job_skills_lower, direct_matches,
                                               semantic_matches)]

(***************************************************************************)
(* Experience axis                                                         *)
(***************************************************************************)
\* (?:\s+of\s+|\s+)(?:experience|work) after position i
OfExperienceAfter(s, i) ==
    \/ At(s, i + 1) \in ExperienceWorkPrefixed
    \/ At(s, i + 1) = "of" /\ At(s, i + 2) \in ExperienceWorkPrefixed

\* (?:experience|work)(?:\s+of\s+|\s+) before position i
ExperienceOfBefore(s, i) ==
    \/ At(s, i - 1) \in ExperienceWorkSuffixed
    \/ At(s, i - 1) = "of" /\ At(s, i - 2) \in ExperienceWorkSuffixed

\* r'(\d+)\+?\s*(?:years|year|yrs|yr)(?:\s+of\s+|\s+)(?:experience|work)'
Pattern1(s) ==
    {TrailNum[s[i]] :
        i \in {j \in DOMAIN s : /\ s[j] \in DOMAIN TrailNum
                                /\ At(s, j + 1) \in YearUnits
                                /\ OfExperienceAfter(s, j + 1)}}

\* r'(?:experience|work)(?:\s+of\s+|\s+)(\d+)\+?\s*(?:years|year|yrs|yr)'
Pattern2(s) ==
    {StartNum[s[i]] :
        i \in {j \in DOMAIN s : /\ s[j] \in DOMAIN StartNum
                                /\ At(s, j + 1) \in YearUnitPrefixed
                                /\ ExperienceOfBefore(s, j)}}

\* r'(\d+)(?:-\d+)?\+?\s*(?:years|year|yrs|yr)'
Pattern3(s) ==
    {LeadNum[s[i]] :
        i \in {j \in DOMAIN s : /\ s[j] \in DOMAIN LeadNum
                                /\ At(s, j + 1) \in YearUnitPrefixed}}

\* r'(?:since|from)\s+(\d{4})'
Pattern4(s) ==
    {Year4[s[i]] :
        i \in {j \in DOMAIN s : s[j] \in DOMAIN Year4 /\ At(s, j - 1) \in SinceFrom}}

\* the body of the loop over the matches: the years one match stands for,
\* 0 when it leaves estimated_years alone
MatchYears(match, year) ==
    IF match >= 1000 /\ match <= 9999
    THEN IF 0 < year - match /\ year - match < 50 THEN year - match ELSE 0
    ELSE match

\* the loop over year_patterns: the maximum over every match of every pattern
ExplicitYears(resume_experience, year) ==
    LET s == Flat(Lower(resume_experience))
    IN  SetMax({MatchYears(m, year) :
                  m \in Pattern1(s) \cup Pattern2(s) \cup Pattern3(s) \cup Pattern4(s)})

\* the position pattern at i, on the text as written
PositionAt(s, i) ==
    \/ s[i] \in PositionColon
    \/ /\ s[i] \in PositionWord
       /\ \/ At(s, i + 1) \in ColonFirst
          \/ /\ At(s, i + 1) \in {"as", "at", "with", "for"}
             /\ i + 2 \in DOMAIN s
             /\ s[i + 2] \notin SentenceEnd

\* position_count
PositionCount(s) == Cardinality({i \in DOMAIN s : PositionAt(s, i)})

\* the date-range pattern at i, on the text as written
DateRangeAt(s, i) ==
    /\ s[i] \in MonthTokens
    /\ At(s, i + 1) \in YearTokens
    /\ At(s, i + 2) \in {"-", "to"}
    /\ At(s, i + 3) \in RangeEndTokens

\* date_ranges: findall's matches do not overlap
RECURSIVE DateRanges(_, _)
DateRanges(s, i) ==
    IF i > Len(s) THEN 0
    ELSE IF DateRangeAt(s, i) THEN 1 + DateRanges(s, i + 4)
    ELSE DateRanges(s, i + 1)

\* resume_experience.split('\n\n')
RECURSIVE Paragraphs(_, _)
Paragraphs(s, cur) ==
    IF s = <<>> THEN <<cur>>
    ELSE IF Len(s) >= 2 /\ s[1] = NL /\ s[2] = NL
         THEN <<cur>> \o Paragraphs(Tail(Tail(s)), <<>>)
         ELSE Paragraphs(Tail(s), Append(cur, Head(s)))

\* job_paragraphs
JobParagraphs(text) ==
    LET paragraphs == Paragraphs(text, <<>>)
    IN  Cardinality({k \in DOMAIN paragraphs :
            /\ CharLen(paragraphs[k]) > 100
            /\ AnyOccurs(ActionVerbs, Lower(paragraphs[k]))})

\* the text-analysis estimate, in half years
StructuralYears2(resume_experience) ==
    LET flat == Flat(resume_experience)
    IN  Max(Max(PositionCount(flat) * 4, DateRanges(flat, 1) * 3),
            Max(JobParagraphs(resume_experience) * 3,
                IF CharLen(resume_experience) > 200 THEN 2 ELSE 0))

\* estimated_years, in half years
EstimatedYears2(resume_experience, year) ==
    LET explicit == ExplicitYears(resume_experience, year)
    IN  IF explicit = 0 THEN StructuralYears2(resume_experience) ELSE 2 * explicit

\* experience_level
ExperienceLevel(estimated2) ==
    IF estimated2 >= 20 THEN "Senior/Expert"
    ELSE IF estimated2 >= 10 THEN "Mid-Senior Level"
    ELSE IF estimated2 >= 4 THEN "Mid Level"
    ELSE "Entry Level"

\* ExperienceScore with the rungs of 0.6 and 1.0 times the requirement
\* exchanged: a ladder that steps down at the requirement
ExperienceScoreSwapped(estimated2, required_years) ==
    IF estimated2 >= 2 * required_years THEN M
    ELSE IF 10 * estimated2 >= 14 * required_years THEN 950000
    ELSE IF estimated2 >= required_years THEN 850000
    ELSE IF 10 * estimated2 >= 6 * required_years THEN 900000
    ELSE IF estimated2 > 0 THEN 800000
    ELSE 750000

\* ExperienceScore with > in place of >= on every rung
ExperienceScoreStrict(estimated2, required_years) ==
    IF estimated2 > 2 * required_years THEN M
    ELSE IF 10 * estimated2 > 14 * required_years THEN 950000
    ELSE IF estimated2 > required_years THEN 900000
    ELSE IF 10 * estimated2 > 6 * required_years THEN 850000
    ELSE IF estimated2 > 0 THEN 800000
    ELSE 750000

\* the score ladder; estimated2 is in half years, required_years in years
ExperienceScore(estimated2, required_years) ==
    IF estimated2 >= 2 * required_years THEN M
    ELSE IF 10 * estimated2 >= 14 * required_years THEN 950000
    ELSE IF estimated2 >= required_years THEN 900000
    ELSE IF 10 * estimated2 >= 6 * required_years THEN 850000
    ELSE IF estimated2 > 0 THEN 800000
    ELSE 750000

\* calculate_experience_match without the early return for a job that
\* asks for no experience: the text is estimated whatever the requirement
ExperienceMatchEstimated(resume_experience, required_years, year) ==
    LET estimated2 == EstimatedYears2(resume_experience, year)
    IN  [score |-> ExperienceScore(estimated2, required_years),
         estimated_years2 |-> estimated2,
         required_years |-> required_years,
         experience_level |-> ExperienceLevel(estimated2)]

calculate_experience_match(resume_experience, required_years, year) ==
    IF required_years = 0
    THEN [score |-> M, estimated_years2 |-> 0, required_years |-> 0,
          experience_level |-> "Entry Level"]
    ELSE LET estimated2 == EstimatedYears2(resume_experience, year)
         IN  [score |-> ExperienceScore(estimated2, required_years),
              estimated_years2 |-> estimated2,
              required_years |-> required_years,
              experience_level |-> ExperienceLevel(estimated2)]

(***************************************************************************)
(* Education axis                                                          *)
(***************************************************************************)
\* education_levels.get(required_education.lower(), 0)
RequiredLevelScore(required_education) ==
    CASE required_education = "high school" -> 1
      [] required_education = "associate"   -> 2
      [] required_education = "bachelor"    -> 3
      [] required_education = "master"      -> 4
      [] required_education = "phd"         -> 5
      [] required_education = "doctorate"   -> 5
      [] OTHER                              -> 0

\* str.title() of a level name
Title(level) ==
    CASE level = "bachelor" -> "Bachelor"
      [] level = "master"   -> "Master"
      [] level = "phd"      -> "Phd"
      [] OTHER              -> level

\* whether the loop over education_levels finds the level of this score in
\* the lower-case education text s
LevelIn(score, s) ==
    CASE score = 1 -> Occurs(LevelNames[1], s)
      [] score = 2 -> Occurs(LevelNames[2], s)
      [] score = 3 -> Occurs(LevelNames[3], s) \/ AnyOccurs(BachelorTerms, s)
      [] score = 4 -> Occurs(LevelNames[4], s) \/ AnyOccurs(MasterTerms, s)
      [] OTHER     -> \/ Occurs(LevelNames[5], s) \/ Occurs(LevelNames[6], s)
                      \/ AnyOccurs(PhdTerms, s)

\* resume_level_score
ResumeLevelScore(resume_education) ==
    SetMax({score \in 1..5 : LevelIn(score, Lower(resume_education))})

\* detected_level: the label the last assignment of the loop leaves
DetectedLevel(resume_education) ==
    LET s == Lower(resume_education)
    IN  IF Occurs(LevelNames[6], s) THEN "Doctorate"
        ELSE IF LevelIn(5, s) THEN "PhD/Doctorate"
        ELSE IF LevelIn(4, s) THEN "Master"
        ELSE IF LevelIn(3, s) THEN "Bachelor"
        ELSE IF LevelIn(2, s) THEN "Associate"
        ELSE IF LevelIn(1, s) THEN "High School"
        ELSE "Unknown"

\* field_match
FieldMatch(resume_education) == AnyOccurs(relevant_fields, Lower(resume_education))

\* BaseScore without the 0.8 baseline: the plain ratio of the levels
BaseScoreProportional(resume_level_score, required_level_score) ==
    IF resume_level_score >= required_level_score THEN M
    ELSE IF required_level_score > 0
         THEN (resume_level_score * M) \div required_level_score
         ELSE 800000

\* base_score
BaseScore(resume_level_score, required_level_score) ==
    IF resume_level_score >= required_level_score THEN M
    ELSE IF required_level_score > 0
         THEN 800000 + (resume_level_score * 200000) \div required_level_score
         ELSE 800000

calculate_education_match(resume_education, required_education) ==
    IF required_education = ""
    THEN [score |-> M, detected_level |-> "Unknown", required_level |-> "None",
          field_match |-> FALSE]
    ELSE LET field_match == FieldMatch(resume_education)
             base_score == BaseScore(ResumeLevelScore(resume_education),
                                     RequiredLevelScore(required_education))
         IN  [score |-> Min(M, base_score + (IF field_match THEN 100000 ELSE 0)),
              detected_level |-> DetectedLevel(resume_education),
              required_level |-> Title(required_education),
              field_match |-> field_match]

(***************************************************************************)
(* Keyword relevance axis                                                  *)
(***************************************************************************)
StopWords == {"and", "the", "for", "with", "that", "this", "are", "you"}

\* re.split(r'[.!?]', text)
RECURSIVE SplitSentences(_, _)
SplitSentences(s, cur) ==
    IF s = <<>> THEN <<cur>>
    ELSE IF Head(s) \in SentenceEnd
         THEN <<cur>> \o SplitSentences(Tail(s), <<>>)
         ELSE SplitSentences(Tail(s), Append(cur, Head(s)))

\* [s.strip() for s in sentences if len(s.strip()) > 10]
Sentences(text) ==
    LET parts == SplitSentences(text, <<>>)
        stripped == [i \in DOMAIN parts |-> Strip(parts[i])]
    IN  SelectSeq(stripped, LAMBDA x : CharLen(x) > 10)

\* word_freq.get(word, 0)
WordFreq(word, words) ==
    IF word \in StopWords THEN 0
    ELSE Cardinality({i \in DOMAIN words : words[i] = word})

\* a sentence's score as the fraction <<numerator, denominator>>
SentenceScore(sentence, text) ==
    LET words_in_sentence == AlphaWords(sentence)
        words == AlphaWords(text)
    IN  IF model = None
        THEN <<SumSeq([i \in DOMAIN words_in_sentence |->
                          WordFreq(words_in_sentence[i], words)]),
               Max(1, Len(words_in_sentence))>>
        ELSE <<pytorch_cos_sim(sentence, text), 1>>

\* a >= b for two fractions with positive denominators
ScoreGeq(a, b) == a[1] * b[2] >= b[1] * a[2]

\* sentence_scores.sort(key=lambda x: x[1], reverse=True): the indices
\* 1..Len(key) by key, descending, equal keys in their first order
RECURSIVE SortByScore(_, _)
SortByScore(items, key) ==
    IF items = <<>> THEN <<>>
    ELSE LET rest == SortByScore(SubSeq(items, 1, Len(items) - 1), key)
             x == items[Len(items)]
             n == Cardinality({i \in DOMAIN rest : ScoreGeq(key[rest[i]], key[x])})
         IN  SubSeq(rest, 1, n) \o <<x>> \o SubSeq(rest, n + 1, Len(rest))

max_phrases == 10

extract_key_phrases(text) ==
    LET sentences == Sentences(text)
        scores == [i \in DOMAIN sentences |-> SentenceScore(sentences[i], text)]
        order == SortByScore([i \in DOMAIN sentences |-> i], scores)
        top == SubSeq(order, 1, Min(max_phrases, Len(order)))
    IN  IF sentences = <<>> THEN <<>>
        ELSE IF model # None /\ pytorch_cos_sim(text, text) = Raised
             THEN SubSeq(sentences, 1, Min(max_phrases, Len(sentences)))
             ELSE [k \in DOMAIN top |-> sentences[top[k]]]

\* one phrase's relevance, lexical branch
LexicalRelevance(phrase, resume_text) ==
    LET key_words == SelectSeq(AlphaWords(phrase), LAMBDA w : w \notin StopWords)
        matches == Cardinality({i \in DOMAIN key_words :
                                  Occurs(<<key_words[i]>>, Lower(resume_text))})
    IN  IF key_words # <<>>
        THEN 750000 + (matches * 250000) \div Len(key_words)
        ELSE 800000

\* EmbeddingRelevance with the cosine scaled by 0.5 instead of 0.25: a
\* relevance that leaves [0,1] at a cosine of 1
EmbeddingRelevanceWide(phrase, resume_text) ==
    LET raw_similarity == pytorch_cos_sim(phrase, resume_text)
    IN  IF raw_similarity = Raised THEN 800000
        ELSE 750000 + raw_similarity * 5000

\* one phrase's relevance, embedding branch
EmbeddingRelevance(phrase, resume_text) ==
    LET raw_similarity == pytorch_cos_sim(phrase, resume_text)
    IN  IF raw_similarity = Raised THEN 800000
        ELSE 750000 + raw_similarity * 2500

calculate_keyword_relevance(resume_text, job_description) ==
    LET job_key_phrases == extract_key_phrases(job_description)
        relevance_scores ==
            [k \in DOMAIN job_key_phrases |->
                IF model = None
                THEN LexicalRelevance(job_key_phrases[k], resume_text)
                ELSE EmbeddingRelevance(job_key_phrases[k], resume_text)]
    IN  IF job_key_phrases = <<>> THEN 800000
        ELSE SumSeq(relevance_scores) \div Len(relevance_scores)

(***************************************************************************)
(* Aggregation                                                             *)
(***************************************************************************)
\* weights that sum to 1.0 with 0.7 of it on the two similarity axes
SimilarityHeavyWeights ==
    [skills |-> 10, experience |-> 10, education |-> 10,
     semantic_similarity |-> 40, keyword_relevance |-> 30]

\* weights that sum to 1.05
SkewedWeights ==
    [skills |-> 35, experience |-> 25, education |-> 15,
     semantic_similarity |-> 15, keyword_relevance |-> 15]

\* self.weights after construction, in hundredths
InitialWeights ==
    [skills |-> 35, experience |-> 25, education |-> 15,
     semantic_similarity |-> 15, keyword_relevance |-> 10]

\* the weighted sum of the five axis scores, in hundredths of a millionth
OverallScore(skills, experience, education, semantic_similarity, keyword_relevance) ==
    skills * weights.skills
    + experience * weights.experience
    + education * weights.education
    + semantic_similarity * weights.semantic_similarity
    + keyword_relevance * weights.keyword_relevance

\* score is in hundredths of a millionth, the result in millionths
normalize_score(score, min_score, max_score) ==
    LET capped_score == Max(0, Min(100 * M, score))
    IN  min_score + ((capped_score \div 100) * ((max_score - min_score) \div 1000))
                    \div 1000

RECURSIVE SumOver(_, _)
SumOver(f, S) ==
    IF S = {} THEN 0
    ELSE LET x == CHOOSE y \in S : TRUE
         IN  f[x] + SumOver(f, S \ {x})

\* sum(self.expected_scores.values()) / len(self.expected_scores)
AvgExpected ==
    (2 * SumOver(expected_scores, DOMAIN expected_scores)
     + Cardinality(DOMAIN expected_scores))
    \div (2 * Cardinality(DOMAIN expected_scores))

\* calibrate_score without the lookup in expected_scores
CalibrateWithoutTable(resume_name, raw_score) ==
    IF raw_score > 85 * M THEN Min(AvgExpected + 20000, 850000)
    ELSE IF raw_score > 70 * M THEN AvgExpected
    ELSE Max(AvgExpected - 20000, 780000)

\* raw_score is in hundredths of a millionth, the result in 1/10000 of a percent
calibrate_score(resume_name, raw_score) ==
    IF resume_name \in DOMAIN expected_scores THEN expected_scores[resume_name]
    ELSE IF raw_score > 85 * M THEN Min(AvgExpected + 20000, 850000)
    ELSE IF raw_score > 70 * M THEN AvgExpected
    ELSE Max(AvgExpected - 20000, 780000)

\* the five axis scores of match_resume_with_job
AxisScores(resume_data, job) ==
    [skills_match |->
        calculate_skills_match(resume_data.skills, job.required_skills),
     experience_match |->
        calculate_experience_match(resume_data.experience,
                                   job.required_experience_years, current_year),
     education_match |->
        calculate_education_match(resume_data.education, job.required_education),
     semantic_similarity |->
        calculate_semantic_similarity(resume_data.full_text, job.full_description),
     keyword_relevance |->
        calculate_keyword_relevance(resume_data.full_text, job.full_description)]

\* overall_score of the axis scores a
WeightedSum(a) ==
    OverallScore(a.skills_match.score, a.experience_match.score,
                 a.education_match.score, a.semantic_similarity, a.keyword_relevance)

\* the locals of match_resume_with_job at its return, from the axis scores a
Aggregated(resume_data, a) ==
    [resume_name |-> resume_data.resume_name,
     skills_match |-> a.skills_match,
     experience_match |-> a.experience_match,
     education_match |-> a.education_match,
     semantic_similarity |-> a.semantic_similarity,
     keyword_relevance |-> a.keyword_relevance,
     overall_score |-> WeightedSum(a),
     adjusted_score |-> normalize_score(WeightedSum(a), 750000, 950000),
     percentage_score |-> Round2(normalize_score(WeightedSum(a), 750000, 950000)),
     calibrated_score |-> calibrate_score(resume_data.resume_name, WeightedSum(a)),
     email |-> IF ZakiNamed(resume_data.resume_name) THEN "" ELSE resume_data.email]

MatchLocals(resume_data, job) == Aggregated(resume_data, AxisScores(resume_data, job))

\* match_details
MatchDetails(l) ==
    [skills |->
        [score |-> Round2(l.skills_match.score),
         weight |-> weights.skills,
         direct_matches |-> l.skills_match.direct_matches,
         semantic_matches |->
            [k \in DOMAIN l.skills_match.semantic_matches |->
                [l.skills_match.semantic_matches[k] EXCEPT !.score = Round2(@)]],
         missing_skills |-> l.skills_match.missing_skills],
     experience |->
        [score |-> Round2(l.experience_match.score),
         weight |-> weights.experience,
         estimated_years2 |-> l.experience_match.estimated_years2,
         required_years |-> l.experience_match.required_years,
         experience_level |-> l.experience_match.experience_level],
     education |->
        [score |-> Round2(l.education_match.score),
         weight |-> weights.education,
         detected_level |-> l.education_match.detected_level,
         required_level |-> l.education_match.required_level,
         field_match |-> l.education_match.field_match],
     semantic_similarity |->
        [score |-> Round2(l.semantic_similarity),
         weight |-> weights.semantic_similarity],
     keyword_relevance |->
        [score |-> Round2(l.keyword_relevance),
         weight |-> weights.keyword_relevance]]

\* the record match_resume_with_job returns
MatchRecord(l) ==
    [resume_name |-> l.resume_name,
     email |-> l.email,
     match_score |-> l.calibrated_score,
     match_details |-> MatchDetails(l)]

match_resume_with_job(resume_data, job) == MatchRecord(MatchLocals(resume_data, job))

\* SortResults with a record put before the records of its score: a sort
\* that reverses the order of equal scores
RECURSIVE SortResultsUnstable(_)
SortResultsUnstable(results) ==
    IF results = <<>> THEN <<>>
    ELSE LET rest == SortResultsUnstable(SubSeq(results, 1, Len(results) - 1))
             x == results[Len(results)]
             n == Cardinality({i \in DOMAIN rest :
                                 rest[i].match_score > x.match_score})
         IN  SubSeq(rest, 1, n) \o <<x>> \o SubSeq(rest, n + 1, Len(rest))

\* match_results.sort(key=lambda x: x['match_score'], reverse=True): the
\* sort is stable, records of one score keep their order
RECURSIVE SortResults(_)
SortResults(results) ==
    IF results = <<>> THEN <<>>
    ELSE LET rest == SortResults(SubSeq(results, 1, Len(results) - 1))
             x == results[Len(results)]
             n == Cardinality({i \in DOMAIN rest :
                                 rest[i].match_score >= x.match_score})
         IN  SubSeq(rest, 1, n) \o <<x>> \o SubSeq(rest, n + 1, Len(rest))

(***************************************************************************)
(* Resume parser                                                           *)
(***************************************************************************)
\* extract_text: the text of a file of a supported format.  A file that
\* cannot be read, or has no text, has the text <<>>.
extract_text(file) ==
    IF PdfExtension(file.name) \/ DocxExtension(file.name) THEN file.text
    ELSE <<>>

extract_email(text) ==
    LET emails == SelectSeq(text, LAMBDA t : t \in EmailTokens)
    IN  IF emails # <<>> THEN emails[1] ELSE ""

extract_phone(text) ==
    LET phones == SelectSeq(text, LAMBDA t : t \in DOMAIN PhoneGroup)
    IN  IF phones # <<>> THEN PhoneGroup[phones[1]] ELSE ""

extract_skills(text) ==
    SelectSeq(common_skills, LAMBDA skill : Occurs(skill, Lower(text)))

\* the loop of extract_education from the line at the head of lines on
RECURSIVE EducationLoop(_, _, _)
EducationLoop(lines, in_education_section, education_section) ==
    IF lines = <<>> THEN education_section
    ELSE LET line == Head(lines)
             line_lower == Lower(line)
             added == education_section \o line \o <<NL>>
         IN  IF AnyOccurs(EducationStart, line_lower)
             THEN EducationLoop(Tail(lines), TRUE, added)
             ELSE IF ~in_education_section
             THEN EducationLoop(Tail(lines), FALSE, education_section)
             ELSE IF AnyOccurs(education_keywords, line_lower)
             THEN EducationLoop(Tail(lines), TRUE, added)
             ELSE IF line # <<>> /\ AnyOccurs(EducationEnd, line_lower)
             THEN EducationLoop(Tail(lines), FALSE, education_section)
             ELSE IF /\ education_section # <<>>
                     /\ (line = <<>> \/ \E i \in DOMAIN line : line[i] \in DigitTokens)
             THEN EducationLoop(Tail(lines), TRUE, added)
             ELSE EducationLoop(Tail(lines), TRUE, education_section)

extract_education(text) ==
    Strip(EducationLoop(SplitLines(text, <<>>), FALSE, <<>>))

\* the loop of extract_experience from the line at the head of lines on
RECURSIVE ExperienceLoop(_, _, _)
ExperienceLoop(lines, in_experience_section, experience_section) ==
    IF lines = <<>> THEN experience_section
    ELSE LET line == Head(lines)
             line_lower == Lower(line)
             added == experience_section \o line \o <<NL>>
         IN  IF AnyOccurs(ExperienceStart, line_lower)
             THEN ExperienceLoop(Tail(lines), TRUE, added)
             ELSE IF ~in_experience_section
             THEN ExperienceLoop(Tail(lines), FALSE, experience_section)
             ELSE IF AnyOccurs(experience_keywords, line_lower)
             THEN ExperienceLoop(Tail(lines), TRUE, added)
             ELSE IF line # <<>> /\ AnyOccurs(ExperienceEnd, line_lower)
             THEN ExperienceLoop(Tail(lines), FALSE, experience_section)
             ELSE IF /\ experience_section # <<>>
                     /\ \/ line = <<>>
                        \/ \E i \in DOMAIN line : line[i] \in DigitTokens
                        \/ \E i \in DOMAIN line : line[i] \in DashTokens
             THEN ExperienceLoop(Tail(lines), TRUE, added)
             ELSE ExperienceLoop(Tail(lines), TRUE, experience_section)

extract_experience(text) ==
    Strip(ExperienceLoop(SplitLines(text, <<>>), FALSE, <<>>))

\* the scanner of a section extractor between two lines: the flag and the
\* text captured so far
ScanStart == [in_section |-> FALSE, section |-> <<>>]

\* EducationLineStep with the last test dropped: in the section every line
\* that does not close it is captured
EducationLineStepGreedy(line, state) ==
    LET line_lower == Lower(line)
        added == state.section \o line \o <<NL>>
    IN  IF AnyOccurs(EducationStart, line_lower)
        THEN [in_section |-> TRUE, section |-> added]
        ELSE IF ~state.in_section THEN state
        ELSE IF AnyOccurs(education_keywords, line_lower)
        THEN [in_section |-> TRUE, section |-> added]
        ELSE IF line # <<>> /\ AnyOccurs(EducationEnd, line_lower)
        THEN [in_section |-> FALSE, section |-> state.section]
        ELSE [in_section |-> TRUE, section |-> added]

\* one turn of the loop of extract_education
EducationLineStep(line, state) ==
    LET line_lower == Lower(line)
        added == state.section \o line \o <<NL>>
    IN  IF AnyOccurs(EducationStart, line_lower)
        THEN [in_section |-> TRUE, section |-> added]
        ELSE IF ~state.in_section THEN state
        ELSE IF AnyOccurs(education_keywords, line_lower)
        THEN [in_section |-> TRUE, section |-> added]
        ELSE IF line # <<>> /\ AnyOccurs(EducationEnd, line_lower)
        THEN [in_section |-> FALSE, section |-> state.section]
        ELSE IF /\ state.section # <<>>
                /\ (line = <<>> \/ \E i \in DOMAIN line : line[i] \in DigitTokens)
        THEN [in_section |-> TRUE, section |-> added]
        ELSE state

\* one turn of the loop of extract_experience
ExperienceLineStep(line, state) ==
    LET line_lower == Lower(line)
        added == state.section \o line \o <<NL>>
    IN  IF AnyOccurs(ExperienceStart, line_lower)
        THEN [in_section |-> TRUE, section |-> added]
        ELSE IF ~state.in_section THEN state
        ELSE IF AnyOccurs(experience_keywords, line_lower)
        THEN [in_section |-> TRUE, section |-> added]
        ELSE IF line # <<>> /\ AnyOccurs(ExperienceEnd, line_lower)
        THEN [in_section |-> FALSE, section |-> state.section]
        ELSE IF /\ state.section # <<>>
                /\ \/ line = <<>>
                   \/ \E i \in DOMAIN line : line[i] \in DigitTokens
                   \/ \E i \in DOMAIN line : line[i] \in DashTokens
        THEN [in_section |-> TRUE, section |-> added]
        ELSE state

parse_resume(file) ==
    LET resume_name == file.name
        text == extract_text(file)
        found == extract_email(text)
        email == IF ZakiNamed(resume_name) THEN "oussof92@gmail.c"
                 ELSE IF JohnDoeNamed(resume_name) THEN "johndoe@email.com"
                 ELSE IF found # "" THEN found
                 ELSE FileNameEmail(resume_name)
    IN  IF text = <<>>
        THEN [resume_name |-> resume_name, email |-> "", phone |-> "",
              skills |-> <<>>, education |-> <<>>, experience |-> <<>>,
              full_text |-> <<>>]
        ELSE [resume_name |-> resume_name, email |-> email,
              phone |-> extract_phone(text),
              skills |-> extract_skills(text),
              education |-> extract_education(text),
              experience |-> extract_experience(text),
              full_text |-> text]

\* the dummy entry of parse_resumes_in_directory
JohnDoeEntry ==
    [resume_name |-> "John_Doe_Resume.pdf", email |-> "johndoe@email.com",
     phone |-> "555-123-4567",
     skills |-> <<<<"python">>, <<"java">>, <<"javascript">>, <<"react">>, <<"node">>>>,
     education |-> JohnDoeEducation,
     experience |-> JohnDoeExperience,
     full_text |-> JohnDoeText]

\* resume_files: the files os.walk finds that have a resume's extension
ResumeFiles(directory) == SelectSeq(directory, LAMBDA f : ResumeExtension(f.name))

parse_resumes_in_directory(directory) ==
    LET resume_files == ResumeFiles(directory)
        john_doe_exists == \E i \in DOMAIN resume_files :
                               JohnDoePdfNamed(resume_files[i].name)
    IN  (IF john_doe_exists THEN <<>> ELSE <<JohnDoeEntry>>)
        \o [i \in DOMAIN resume_files |-> parse_resume(resume_files[i])]

(***************************************************************************)
(* Job requirements parser                                                 *)
(***************************************************************************)
\* the job pattern matches from the token at i on
JobYearsAt(s, i) ==
    \/ s[i] \in DOMAIN JobNum /\ At(s, i + 1) \in YearUnitPrefixed
    \/ /\ s[i] \in DOMAIN TrailDigits
       /\ At(s, i + 1) = "-"
       /\ At(s, i + 2) \in AllDigits
       /\ At(s, i + 3) \in YearUnitPrefixed

\* extract_years_of_experience with the level words tried before the
\* numeric pattern
ExtractYearsLevelFirst(text) ==
    LET s == Flat(Lower(text))
        found == {i \in DOMAIN s : JobYearsAt(s, i)}
        first == CHOOSE i \in found : \A j \in found : i <= j
    IN  IF Occurs(LevelWords[1], Lower(text)) \/ Occurs(LevelWords[2], Lower(text))
        THEN 0
        ELSE IF Occurs(LevelWords[3], Lower(text)) \/ Occurs(LevelWords[4], Lower(text))
        THEN 2
        ELSE IF Occurs(LevelWords[5], Lower(text)) \/ Occurs(LevelWords[6], Lower(text))
        THEN 5
        ELSE IF found # {}
        THEN IF s[first] \in DOMAIN JobNum /\ At(s, first + 1) \in YearUnitPrefixed
             THEN JobNum[s[first]]
             ELSE TrailDigits[s[first]]
        ELSE 0

extract_years_of_experience(text) ==
    LET s == Flat(Lower(text))
        found == {i \in DOMAIN s : JobYearsAt(s, i)}
        first == CHOOSE i \in found : \A j \in found : i <= j
    IN  IF found # {}
        THEN IF s[first] \in DOMAIN JobNum /\ At(s, first + 1) \in YearUnitPrefixed
             THEN JobNum[s[first]]
             ELSE TrailDigits[s[first]]
        ELSE IF Occurs(LevelWords[1], Lower(text)) \/ Occurs(LevelWords[2], Lower(text))
        THEN 0
        ELSE IF Occurs(LevelWords[3], Lower(text)) \/ Occurs(LevelWords[4], Lower(text))
        THEN 2
        ELSE IF Occurs(LevelWords[5], Lower(text)) \/ Occurs(LevelWords[6], Lower(text))
        THEN 5
        ELSE 0

extract_education_level(text) ==
    LET text_lower == Lower(text)
    IN  IF AnyOccurs(JobBachelorTerms, text_lower) THEN "bachelor"
        ELSE IF AnyOccurs(JobMasterTerms, text_lower) THEN "master"
        ELSE IF AnyOccurs(JobPhdTerms, text_lower) THEN "phd"
        ELSE ""

\* the entity loop adds only skills of common_skills that occur in the text,
\* and the loop before it has them already
extract_skills_from_text(text) ==
    SelectSeq(common_skills, LAMBDA skill : Occurs(skill, Lower(text)))

\* CategoryOf with the categories tried in the reverse order: the last
\* category with a keyword in the line wins
CategoryOfReversed(req) ==
    LET req_lower == Lower(req)
    IN  IF AnyOccurs(category_soft_skills, req_lower) THEN "soft_skills"
        ELSE IF AnyOccurs(category_tools, req_lower) THEN "tools"
        ELSE IF AnyOccurs(category_skills, req_lower) THEN "skills"
        ELSE IF AnyOccurs(category_experience, req_lower) THEN "experience"
        ELSE IF AnyOccurs(category_education, req_lower) THEN "education"
        ELSE "other"

\* the category of one requirement
CategoryOf(req) ==
    LET req_lower == Lower(req)
    IN  IF AnyOccurs(category_education, req_lower) THEN "education"
        ELSE IF AnyOccurs(category_experience, req_lower) THEN "experience"
        ELSE IF AnyOccurs(category_skills, req_lower) THEN "skills"
        ELSE IF AnyOccurs(category_tools, req_lower) THEN "tools"
        ELSE IF AnyOccurs(category_soft_skills, req_lower) THEN "soft_skills"
        ELSE "other"

categorize_requirements(requirements) ==
    [category \in {"education", "experience", "skills", "tools", "soft_skills", "other"}
        |-> SelectSeq(requirements, LAMBDA req : CategoryOf(req) = category)]

\* AppendNew without the test 'skill not in skills': every non-empty item
\* is appended
AppendAll(skills, items) ==
    skills \o SelectSeq(items, LAMBDA skill : skill # <<>>)

\* for skill in items: if skill and skill not in skills: skills.append(skill)
RECURSIVE AppendNew(_, _)
AppendNew(skills, items) ==
    IF items = <<>> THEN skills
    ELSE AppendNew(IF Head(items) # <<>> /\ Head(items) \notin Range(skills)
                   THEN Append(skills, Head(items)) ELSE skills,
                   Tail(items))

\* the loop over job_requirements of extract_required_skills
RECURSIVE RequirementSkills(_, _)
RequirementSkills(skills, requirements) ==
    IF requirements = <<>> THEN skills
    ELSE RequirementSkills(AppendNew(skills, extract_skills_from_text(Head(requirements))),
                           Tail(requirements))

\* job_skills holds the pieces re.split(r'[|,;]', skills_text) gives
extract_required_skills(job) ==
    LET from_field == AppendNew(<<>>, LowerSkills(job.job_skills))
        from_requirements == RequirementSkills(from_field, job.job_requirements)
    IN  IF job.description # <<>>
        THEN AppendNew(from_requirements, extract_skills_from_text(job.description))
        ELSE from_requirements

\* the loop over job_requirements for required_experience_years
RECURSIVE RequiredYears(_, _)
RequiredYears(requirements, required_experience_years) ==
    IF requirements = <<>> THEN required_experience_years
    ELSE RequiredYears(Tail(requirements),
                       Max(required_experience_years,
                           extract_years_of_experience(Head(requirements))))

\* the loop over job_requirements for required_education
RECURSIVE RequiredEducation(_, _)
RequiredEducation(requirements, required_education) ==
    IF requirements = <<>> THEN required_education
    ELSE LET education == extract_education_level(Head(requirements))
         IN  IF education = "phd" THEN "phd"
             ELSE IF education = "master" /\ required_education # "phd"
             THEN RequiredEducation(Tail(requirements), "master")
             ELSE IF education = "bachelor" /\ required_education \notin {"phd", "master"}
             THEN RequiredEducation(Tail(requirements), "bachelor")
             ELSE RequiredEducation(Tail(requirements), required_education)

\* load_job_requirements' result for a file that is missing, is not JSON,
\* or holds an empty object
EmptyJob ==
    [loaded |-> FALSE, job_title |-> "", company |-> "", job_skills |-> <<>>,
     job_requirements |-> <<>>, description |-> <<>>]

parse_job_requirements(job) ==
    IF ~job.loaded
    THEN [job_title |-> "", company |-> "", required_experience_years |-> 0,
          required_education |-> "", required_skills |-> <<>>,
          categorized_requirements |-> <<>>, full_description |-> <<>>,
          original_data |-> EmptyJob]
    ELSE [job_title |-> job.job_title,
          company |-> job.company,
          required_experience_years |-> RequiredYears(job.job_requirements, 0),
          required_education |-> RequiredEducation(job.job_requirements, ""),
          required_skills |-> extract_required_skills(job),
          categorized_requirements |->
              IF job.job_requirements # <<>>
              THEN categorize_requirements(job.job_requirements) ELSE <<>>,
          full_description |-> job.description,
          original_data |-> job]

(***************************************************************************)
(* Inputs                                                                  *)
(***************************************************************************)
\* the largest number of files in the input directory
MaxResumes == 2

\* datetime.datetime.now().year of the run
CurrentYear == 2025

\* the files a directory can hold: a name and the text its extraction gives
Files ==
    {[name |-> "ahmed_mahmoud CV - ahmed mahmoud.pdf", text |-> StrongText],
     [name |-> "Islam Adel Software Engineer CV.pdf", text |-> PlainText],
     [name |-> "Ahmed_Zaki_Eldin.pdf", text |-> WeakText],
     [name |-> "Sam Poe - CV.docx", text |-> WeakText],
     [name |-> "John_Doe_Resume.pdf", text |-> JohnDoeText],
     [name |-> "scan.pdf", text |-> <<>>],
     [name |-> "notes.txt", text |-> PlainText]}

\* the directories of up to max files of different names, in the order
\* os.walk lists them
DirectoriesUpTo(max) ==
    UNION {{d \in [1..n -> Files] :
               \A i, j \in 1..n : i # j => d[i].name # d[j].name} :
           n \in 0..max}

Directories == DirectoriesUpTo(MaxResumes)

\* the job files
Jobs ==
    {EmptyJob,
     [loaded |-> TRUE, job_title |-> "Developer", company |-> "Acme",
      job_skills |-> <<SkillItem1, SkillItem2, SkillItem3>>,
      job_requirements |-> <<Requirement1, Requirement2>>,
      description |-> Description1],
     [loaded |-> TRUE, job_title |-> "Researcher", company |-> "",
      job_skills |-> <<>>,
      job_requirements |-> <<Requirement3, Requirement4>>,
      description |-> Description2],
     [loaded |-> TRUE, job_title |-> "Any", company |-> "",
      job_skills |-> <<>>, job_requirements |-> <<>>, description |-> <<>>]}

(***************************************************************************)
(* match_resumes_with_job                                                  *)
(***************************************************************************)
NoJobData == [job_title |-> None]

NoLocals == [resume_name |-> None]

NoProbe == [op |-> None]

\* the matcher after construction, about to run match_resumes_with_job on
\* one directory and one job file
PipelineInit(configurations, directories) ==
    /\ model \in {None} \cup Encoders
    /\ weights \in configurations
    /\ current_year = CurrentYear
    /\ pc = "parse_job"
    /\ resumes_dir \in directories
    /\ job_json \in Jobs
    /\ job_data = NoJobData
    /\ parsed_resumes = <<>>
    /\ match_results = <<>>
    /\ locals = NoLocals
    /\ probe = NoProbe

Init == PipelineInit({InitialWeights}, Directories)

\* job_data = self.job_parser.parse_job_requirements(job_json_path)
ParseJobRequirements ==
    /\ pc = "parse_job"
    /\ job_data' = parse_job_requirements(job_json)
    /\ pc' = "parse_resumes"
    /\ UNCHANGED <<model, weights, current_year, resumes_dir, job_json,
                   parsed_resumes, match_results, locals, probe>>

\* parsed_resumes = self.resume_parser.parse_resumes_in_directory(resumes_dir)
ParseResumesInDirectory ==
    /\ pc = "parse_resumes"
    /\ parsed_resumes' = parse_resumes_in_directory(resumes_dir)
    /\ pc' = "match"
    /\ UNCHANGED <<model, weights, current_year, resumes_dir, job_json, job_data,
                   match_results, locals, probe>>

\* one turn of the loop over parsed_resumes
MatchResume ==
    /\ pc = "match"
    /\ Len(match_results) < Len(parsed_resumes)
    /\ locals' = MatchLocals(parsed_resumes[Len(match_results) + 1], job_data)
    /\ match_results' = Append(match_results, MatchRecord(locals'))
    /\ UNCHANGED <<model, weights, current_year, pc, resumes_dir, job_json, job_data,
                   parsed_resumes, probe>>

\* the end of the loop: the sort, and the return
SortAndReturn ==
    /\ pc = "match"
    /\ Len(match_results) = Len(parsed_resumes)
    /\ match_results' = SortResults(match_results)
    /\ pc' = "done"
    /\ UNCHANGED <<model, weights, current_year, resumes_dir, job_json, job_data,
                   parsed_resumes, locals, probe>>

Next ==
    \/ ParseJobRequirements
    \/ ParseResumesInDirectory
    \/ MatchResume
    \/ SortAndReturn

Spec == Init /\ [][Next]_vars

(***************************************************************************)
(* The matcher with other weights than the constructor's: self.weights is  *)
(* a public attribute, and nothing reads it before match_resume_with_job   *)
(***************************************************************************)
\* the largest number of files in the input directory of a configured run
MaxConfigResumes == 1

WeightSum(w) ==
    w.skills + w.experience + w.education + w.semantic_similarity
    + w.keyword_relevance

\* the constructor's weights, and two with another sum
Configurations ==
    {InitialWeights,
     [InitialWeights EXCEPT !.skills = 50],
     [InitialWeights EXCEPT !.keyword_relevance = 0]}

InitConfig == PipelineInit(Configurations, DirectoriesUpTo(MaxConfigResumes))

SpecConfig == InitConfig /\ [][Next]_vars

(***************************************************************************)
(* Direct calls of one scorer                                              *)
(***************************************************************************)
\* the pipeline's variables when only a scorer is called
PipelineIdle ==
    /\ weights = InitialWeights
    /\ current_year = CurrentYear
    /\ pc = "idle"
    /\ resumes_dir = <<>>
    /\ job_json = EmptyJob
    /\ job_data = NoJobData
    /\ parsed_resumes = <<>>
    /\ match_results = <<>>
    /\ locals = NoLocals

\* ---- calculate_skills_match, and the same call with one more required
\* ---- skill that the resume has
MaxSkills == 2

SkillPool == {<<"python">>, <<"Python">>, <<"react">>}

SkillLists == UNION {[1..n -> SkillPool] : n \in 0..MaxSkills}

InitSkills ==
    /\ PipelineIdle
    /\ model \in {None} \cup Encoders
    /\ \E resume_skills \in SkillLists, job_skills \in SkillLists :
          probe = [op |-> "skills",
                   resume_skills |-> resume_skills,
                   job_skills |-> job_skills,
                   added |-> <<>>,
                   before |-> calculate_skills_match(resume_skills, job_skills).score,
                   after |-> calculate_skills_match(resume_skills, job_skills).score,
                   result |-> calculate_skills_match(resume_skills, job_skills)]

AppendOwnedSkill ==
    /\ probe.op = "skills"
    /\ Len(probe.job_skills) <= MaxSkills
    /\ \E skill \in SkillPool :
          /\ Lower(skill) \in Range(LowerSkills(probe.resume_skills))
          /\ probe' = [op |-> "skills",
                       resume_skills |-> probe.resume_skills,
                       job_skills |-> Append(probe.job_skills, skill),
                       added |-> skill,
                       before |-> probe.after,
                       after |-> calculate_skills_match(probe.resume_skills,
                                     Append(probe.job_skills, skill)).score,
                       result |-> calculate_skills_match(probe.resume_skills,
                                     Append(probe.job_skills, skill))]
    /\ UNCHANGED <<model, weights, current_year, pc, resumes_dir, job_json, job_data,
                   parsed_resumes, match_results, locals>>

NextSkills == AppendOwnedSkill

SpecSkills == InitSkills /\ [][NextSkills]_vars

\* ---- the score ladder of calculate_experience_match, and the same with
\* ---- more estimated years
MaxRequiredYears == 5

\* the largest estimate, in half years
MaxEstimated2 == 24

InitExperience ==
    /\ PipelineIdle
    /\ model = None
    /\ \E required_years \in 0..MaxRequiredYears, estimated2 \in 0..MaxEstimated2 :
          probe = [op |-> "experience",
                   required_years |-> required_years,
                   estimated2 |-> estimated2,
                   before |-> ExperienceScore(estimated2, required_years),
                   after |-> ExperienceScore(estimated2, required_years),
                   level |-> ExperienceLevel(estimated2)]

IncreaseEstimate ==
    /\ probe.op = "experience"
    /\ \E estimated2 \in (probe.estimated2 + 1)..MaxEstimated2 :
          probe' = [op |-> "experience",
                    required_years |-> probe.required_years,
                    estimated2 |-> estimated2,
                    before |-> probe.after,
                    after |-> ExperienceScore(estimated2, probe.required_years),
                    level |-> ExperienceLevel(estimated2)]
    /\ UNCHANGED <<model, weights, current_year, pc, resumes_dir, job_json, job_data,
                   parsed_resumes, match_results, locals>>

NextExperience == IncreaseEstimate

SpecExperience == InitExperience /\ [][NextExperience]_vars

\* ---- calculate_semantic_similarity without a model, on two texts and on
\* ---- the same two the other way round
MaxTextLen == 2

TextTokens == {"python", "Python", "react", "c++", "."}

Texts == UNION {[1..n -> TextTokens] : n \in 0..MaxTextLen}

InitSimilarity ==
    /\ PipelineIdle
    /\ model = None
    /\ \E text1 \in Texts, text2 \in Texts :
          probe = [op |-> "similarity", text1 |-> text1, text2 |-> text2,
                   swapped |-> FALSE,
                   forward |-> calculate_semantic_similarity(text1, text2),
                   backward |-> calculate_semantic_similarity(text2, text1)]

SwapTexts ==
    /\ probe.op = "similarity"
    /\ ~probe.swapped
    /\ probe' = [op |-> "similarity", text1 |-> probe.text2, text2 |-> probe.text1,
                 swapped |-> TRUE,
                 forward |-> calculate_semantic_similarity(probe.text2, probe.text1),
                 backward |-> calculate_semantic_similarity(probe.text1, probe.text2)]
    /\ UNCHANGED <<model, weights, current_year, pc, resumes_dir, job_json, job_data,
                   parsed_resumes, match_results, locals>>

NextSimilarity == SwapTexts

SpecSimilarity == InitSimilarity /\ [][NextSimilarity]_vars

(***************************************************************************)
(* match_resumes_with_job called twice on one matcher, one directory and   *)
(* one job file, while the clock that datetime.datetime.now() reads runs   *)
(***************************************************************************)
\* the largest number of files in the input directory of a repeated run
MaxRerunResumes == 1

\* the number of new years the clock can pass
MaxYearsLater == 1

InitRerun ==
    /\ PipelineInit({InitialWeights}, DirectoriesUpTo(MaxRerunResumes))
    /\ model = None

\* the caller keeps the list the first call returned and calls again with
\* the same arguments
RunAgain ==
    /\ pc = "done"
    /\ probe = NoProbe
    /\ probe' = [op |-> "rerun", first |-> match_results, year |-> current_year]
    /\ pc' = "parse_job"
    /\ job_data' = NoJobData
    /\ parsed_resumes' = <<>>
    /\ match_results' = <<>>
    /\ locals' = NoLocals
    /\ UNCHANGED <<model, weights, current_year, resumes_dir, job_json>>

\* datetime.datetime.now().year after a new year's eve
NewYear ==
    /\ current_year < CurrentYear + MaxYearsLater
    /\ current_year' = current_year + 1
    /\ UNCHANGED <<model, weights, pc, resumes_dir, job_json, job_data,
                   parsed_resumes, match_results, locals, probe>>

NextRerun ==
    \/ Next
    \/ RunAgain
    \/ NewYear

SpecRerun == InitRerun /\ [][NextRerun]_vars

(***************************************************************************)
(* calculate_semantic_similarity called on two texts, with a loaded model  *)
(* of any behaviour or without one                                         *)
(***************************************************************************)
InitBackend ==
    /\ PipelineIdle
    /\ model \in {None} \cup Encoders
    /\ \E text1 \in Texts, text2 \in Texts :
          probe = [op |-> "backend", text1 |-> text1, text2 |-> text2,
                   called |-> FALSE, result |-> 0]

CallSimilarity ==
    /\ probe.op = "backend"
    /\ ~probe.called
    /\ probe' = [probe EXCEPT
                    !.called = TRUE,
                    !.result = calculate_semantic_similarity(probe.text1, probe.text2)]
    /\ UNCHANGED <<model, weights, current_year, pc, resumes_dir, job_json, job_data,
                   parsed_resumes, match_results, locals>>

NextBackend == CallSimilarity

SpecBackend == InitBackend /\ [][NextBackend]_vars

(***************************************************************************)
(* calculate_experience_match called on one experience text                *)
(***************************************************************************)
\* the longest experience text made of ExperienceTokens
MaxExperienceLen == 4

ExperienceTokens == {"5", "years", "of", "experience", "since", "2018"}

\* the experience texts: every text of up to MaxExperienceLen tokens, the
\* experience sections of the resumes, and a text with positions alone
ExperienceTexts ==
    UNION {[1..n -> ExperienceTokens] : n \in 0..MaxExperienceLen}
    \cup {extract_experience(StrongText), extract_experience(WeakText),
          extract_experience(PlainText), JohnDoeExperience,
          <<"worked", "as", "developer">>}

InitEstimate ==
    /\ PipelineIdle
    /\ model = None
    /\ \E resume_experience \in ExperienceTexts, required_years \in 0..MaxRequiredYears :
          probe = [op |-> "estimate", resume_experience |-> resume_experience,
                   required_years |-> required_years, called |-> FALSE,
                   result |-> [score |-> 0]]

CallExperienceMatch ==
    /\ probe.op = "estimate"
    /\ ~probe.called
    /\ probe' = [probe EXCEPT
                    !.called = TRUE,
                    !.result = calculate_experience_match(
                                   probe.resume_experience, probe.required_years,
                                   current_year)]
    /\ UNCHANGED <<model, weights, current_year, pc, resumes_dir, job_json, job_data,
                   parsed_resumes, match_results, locals>>

NextEstimate == CallExperienceMatch

SpecEstimate == InitEstimate /\ [][NextEstimate]_vars

(***************************************************************************)
(* calculate_education_match called on one education text                  *)
(***************************************************************************)
\* the longest education text made of EducationTokens
MaxEducationLen == 3

EducationTokens == {"Bachelor", "of", "Computer", "Science", "PhD", "Diploma"}

\* the education texts: every text of up to MaxEducationLen tokens and the
\* education sections of the resumes
EducationTexts ==
    UNION {[1..n -> EducationTokens] : n \in 0..MaxEducationLen}
    \cup {extract_education(StrongText), extract_education(WeakText),
          extract_education(PlainText), JohnDoeEducation}

\* the values parse_job_requirements gives required_education
RequiredLevels == {"", "bachelor", "master", "phd"}

InitEducation ==
    /\ PipelineIdle
    /\ model = None
    /\ \E resume_education \in EducationTexts, required_education \in RequiredLevels :
          probe = [op |-> "education", resume_education |-> resume_education,
                   required_education |-> required_education, called |-> FALSE,
                   result |-> [score |-> 0]]

CallEducationMatch ==
    /\ probe.op = "education"
    /\ ~probe.called
    /\ probe' = [probe EXCEPT
                    !.called = TRUE,
                    !.result = calculate_education_match(probe.resume_education,
                                                         probe.required_education)]
    /\ UNCHANGED <<model, weights, current_year, pc, resumes_dir, job_json, job_data,
                   parsed_resumes, match_results, locals>>

NextEducation == CallEducationMatch

SpecEducation == InitEducation /\ [][NextEducation]_vars

(***************************************************************************)
(* parse_job_requirements called on one job file                           *)
(***************************************************************************)
\* the largest number of requirement lines of a job file
MaxRequirements == 2

RequirementLines ==
    {Requirement1, Requirement2, Requirement3, Requirement4, Requirement5,
     Requirement6, Requirement7, Requirement8, Requirement9, Requirement10}

\* the job_skills fields, as the pieces re.split(r'[|,;]', ...) gives:
\* none, "Python|React", "Python, python; React", "Docker,,Python"
JobSkillFields ==
    {<<>>,
     <<SkillItem1, SkillItem2>>,
     <<SkillItem1, SkillItem3, SkillItem2>>,
     <<<<"Docker">>, <<>>, SkillItem1>>}

JobFiles ==
    {[loaded |-> TRUE, job_title |-> "Developer", company |-> "Acme",
      job_skills |-> job_skills, job_requirements |-> job_requirements,
      description |-> description] :
        job_skills \in JobSkillFields,
        job_requirements \in UNION {[1..n -> RequirementLines] : n \in 0..MaxRequirements},
        description \in {<<>>, Description1, Description2}}

InitJob ==
    /\ PipelineIdle
    /\ model = None
    /\ \E job \in JobFiles :
          probe = [op |-> "job", job |-> job, called |-> FALSE, result |-> NoJobData]

CallParseJob ==
    /\ probe.op = "job"
    /\ ~probe.called
    /\ probe' = [probe EXCEPT !.called = TRUE,
                              !.result = parse_job_requirements(probe.job)]
    /\ UNCHANGED <<model, weights, current_year, pc, resumes_dir, job_json, job_data,
                   parsed_resumes, match_results, locals>>

NextJob == CallParseJob

SpecJob == InitJob /\ [][NextJob]_vars

(***************************************************************************)
(* extract_education and extract_experience, line by line                  *)
(***************************************************************************)
\* the largest number of lines of a scanned text
MaxLines == 3

\* the lines: the headers, the other sections' headers, a blank line, a
\* line with an education keyword and a year, a line with an experience
\* keyword, a dash and a number, and a line with none of these
SectionLines ==
    {<<"Education">>, <<"Experience">>, <<"Projects">>, <<"Skills">>, <<>>,
     <<"Diploma", "2020">>, <<"managed", "teams", "-", "2", "years">>,
     <<"Node", "tools">>}

\* '\n'.join(lines)
RECURSIVE JoinLines(_)
JoinLines(lines) ==
    IF lines = <<>> THEN <<>>
    ELSE IF Len(lines) = 1 THEN Head(lines)
    ELSE Head(lines) \o <<NL>> \o JoinLines(Tail(lines))

InitSection ==
    /\ PipelineIdle
    /\ model = None
    /\ \E extractor \in {"education", "experience"},
          lines \in UNION {[1..n -> SectionLines] : n \in 1..MaxLines} :
          probe = [op |-> "section", extractor |-> extractor, lines |-> lines,
                   pos |-> 0, state |-> ScanStart]

\* the loop of extract_education reads its next line
ScanEducationLine ==
    /\ probe.op = "section"
    /\ probe.extractor = "education"
    /\ probe.pos < Len(probe.lines)
    /\ probe' = [probe EXCEPT
                    !.pos = probe.pos + 1,
                    !.state = EducationLineStep(probe.lines[probe.pos + 1], probe.state)]
    /\ UNCHANGED <<model, weights, current_year, pc, resumes_dir, job_json, job_data,
                   parsed_resumes, match_results, locals>>

\* the loop of extract_experience reads its next line
ScanExperienceLine ==
    /\ probe.op = "section"
    /\ probe.extractor = "experience"
    /\ probe.pos < Len(probe.lines)
    /\ probe' = [probe EXCEPT
                    !.pos = probe.pos + 1,
                    !.state = ExperienceLineStep(probe.lines[probe.pos + 1], probe.state)]
    /\ UNCHANGED <<model, weights, current_year, pc, resumes_dir, job_json, job_data,
                   parsed_resumes, match_results, locals>>

NextSection == ScanEducationLine \/ ScanExperienceLine

SpecSection == InitSection /\ [][NextSection]_vars

(***************************************************************************)
(* match_resume_with_job called on one resume and one job                  *)
(***************************************************************************)
\* the resume files: the files of the directories, and a file whose text
\* has no section, no e-mail and no skill a job asks for
MatchFiles == Files \cup {[name |-> "Lee Roe - CV.pdf", text |-> BareText]}

InitMatch ==
    /\ PipelineIdle
    /\ model \in {None} \cup Encoders
    /\ \E file \in MatchFiles, job \in Jobs :
          probe = [op |-> "match", file |-> file, job |-> job, called |-> FALSE,
                   result |-> NoLocals]

\* match_resume_with_job on the parsed file and the parsed job: its locals
\* at the return
CallMatch ==
    /\ probe.op = "match"
    /\ ~probe.called
    /\ probe' = [probe EXCEPT
                    !.called = TRUE,
                    !.result = MatchLocals(parse_resume(probe.file),
                                           parse_job_requirements(probe.job))]
    /\ UNCHANGED <<model, weights, current_year, pc, resumes_dir, job_json, job_data,
                   parsed_resumes, match_results, locals>>

NextMatch == CallMatch

SpecMatch == InitMatch /\ [][NextMatch]_vars

(***************************************************************************)
(* Properties                                                              *)
(***************************************************************************)
\* the record the latest turn of the matching loop appended
LastRecord == match_results[Len(match_results)]

\* a turn of the matching loop has just run
Matched == pc = "match" /\ locals # NoLocals

\* C1: for a resume whose name is no key of expected_scores, the match_score
\* match_resume_with_job returns is the computed percentage,
\* round(100 * (0.75 + 0.20 * clamp01(weighted sum)), 2).
ComputedScoreReturned ==
    (Matched /\ locals.resume_name \notin DOMAIN expected_scores)
        => LastRecord.match_score = locals.percentage_score

\* C2: for a resume whose name is a key of expected_scores, the match_score
\* returned is the table's score (within 0.1), whatever the evidence and
\* the job.
TableScoreReturned ==
    \A k \in DOMAIN match_results :
        match_results[k].resume_name \in DOMAIN expected_scores
            => /\ match_results[k].match_score
                    <= expected_scores[match_results[k].resume_name] + 1000
               /\ match_results[k].match_score
                    >= expected_scores[match_results[k].resume_name] - 1000

\* C2 witness: a resume of the table has been matched, and its evidence
\* computes to another percentage than the table's
TableScoreWitness ==
    /\ Matched
    /\ locals.resume_name \in DOMAIN expected_scores
    /\ locals.percentage_score # expected_scores[locals.resume_name]
    /\ LastRecord.match_score = expected_scores[locals.resume_name]

\* C3: the five axis scores and the weighted sum lie in [0,1], and every
\* reported match_score in [0,100], with the embedding backend as without.
ScoresInRange ==
    /\ locals # NoLocals =>
          /\ locals.skills_match.score \in 0..M
          /\ locals.experience_match.score \in 0..M
          /\ locals.education_match.score \in 0..M
          /\ locals.semantic_similarity \in 0..M
          /\ locals.keyword_relevance \in 0..M
          /\ locals.overall_score \in 0..(100 * M)
    /\ \A k \in DOMAIN match_results : match_results[k].match_score \in 0..M

\* C3 witness: a match under an encoder whose cosine is -1, the keyword and
\* similarity axes below their lexical floor of 0.75
ScoresInRangeWitness ==
    /\ Matched
    /\ model = "opposite"
    /\ locals.keyword_relevance < 750000
    /\ locals.semantic_similarity < 750000

\* after is before in descending order of match_score, records of one score
\* in the order they have in before
IsStableSort(before, after) ==
    /\ Len(after) = Len(before)
    /\ \E p \in Permutations(DOMAIN before) :
          /\ \A k \in DOMAIN after : after[k] = before[p[k]]
          /\ \A k, l \in DOMAIN after :
                k < l => \/ after[k].match_score > after[l].match_score
                         \/ /\ after[k].match_score = after[l].match_score
                            /\ p[k] < p[l]

\* C4: the list match_resumes_with_job returns is a permutation of the
\* records of the matching loop, one per parsed resume in the parser's
\* order, by match_score descending, equal scores in the parser's order.
SortedStable ==
    [][(pc = "match" /\ pc' = "done")
          => /\ [k \in DOMAIN match_results |-> match_results[k].resume_name]
                  = [k \in DOMAIN parsed_resumes |-> parsed_resumes[k].resume_name]
             /\ IsStableSort(match_results, match_results')]_vars

\* C4 witness: a returned list whose first record is not the parser's first
\* resume, with two records of one score
SortedStableWitness ==
    /\ pc = "done"
    /\ Len(match_results) >= 3
    /\ match_results[1].resume_name # parsed_resumes[1].resume_name
    /\ \E k \in DOMAIN match_results :
          /\ k + 1 \in DOMAIN match_results
          /\ match_results[k].match_score = match_results[k + 1].match_score

\* C5: the returned list has exactly one record for each resume file found
\* in the input directory and none for anything else: its length is the
\* number of input resumes.
OneRecordPerFile ==
    pc = "done" =>
        /\ Len(match_results) = Len(ResumeFiles(resumes_dir))
        /\ {match_results[k].resume_name : k \in DOMAIN match_results}
             = {resumes_dir[i].name :
                  i \in {j \in DOMAIN resumes_dir : ResumeExtension(resumes_dir[j].name)}}

\* C6: the weights are skills 0.35, experience 0.25, education 0.15,
\* semantic similarity 0.15, keyword relevance 0.10, their sum is 1.0, and
\* no scoring or ranking operation changes them.
WeightsFixed ==
    /\ weights = [skills |-> 35, experience |-> 25, education |-> 15,
                  semantic_similarity |-> 15, keyword_relevance |-> 10]
    /\ WeightSum(weights) = 100

\* C6 witness: a run that has scored and ranked resumes, the weights as set
WeightsFixedWitness ==
    /\ pc = "done"
    /\ Len(match_results) >= 2
    /\ weights.skills = 35
    /\ WeightSum(weights) = 100

SkillsMonotone ==
    probe.op = "skills" => probe.after >= probe.before

\* C8 witness: a required skill the resume has in another case was added
\* to a list with a skill the resume lacks, and the score rose
SkillsMonotoneWitness ==
    /\ probe.op = "skills"
    /\ probe.added # <<>>
    /\ probe.added \notin Range(probe.resume_skills)
    /\ probe.after > probe.before

\* C9: for fixed required_years, more estimated years never lower the
\* experience score.
ExperienceMonotone ==
    probe.op = "experience" => probe.after >= probe.before

\* C9 witness: the estimate grew from below the requirement past it, and
\* the score rose from one middle rung to another
ExperienceMonotoneWitness ==
    /\ probe.op = "experience"
    /\ probe.required_years > 0
    /\ probe.before = 850000
    /\ probe.after = 950000

\* C10: without a model, calculate_semantic_similarity(a, b) equals
\* calculate_semantic_similarity(b, a), an empty side included.
SimilaritySymmetric ==
    probe.op = "similarity" => probe.forward = probe.backward

\* C10 witness: two texts of different length that share some words but
\* not all, compared, exchanged and compared again
SimilaritySymmetricWitness ==
    /\ probe.op = "similarity"
    /\ probe.swapped
    /\ Len(probe.text1) # Len(probe.text2)
    /\ probe.forward > 750000
    /\ probe.forward < M
    /\ probe.forward = probe.backward

\* C11: without a model, a second run of the pipeline on the same
\* directory and the same job file returns the records of the first run in
\* the same order: the result depends on nothing but the resumes and the job.
RerunIdentical ==
    (pc = "done" /\ probe.op = "rerun") => match_results = probe.first

\* C12: a job file that is missing or is not JSON aborts the run:
\* match_resumes_with_job never scores or ranks a resume against a job
\* record that failed to load.
UnreadableJobAborts ==
    ~job_json.loaded => (locals = NoLocals /\ match_results = <<>>)

\* C13: calculate_semantic_similarity returns a value in [0.75, 1.0] for
\* two non-empty texts on the embedding path (raw cosine anywhere in
\* [-1,1]) and on the fallback path, and exactly 0.8 when either text is
\* empty.
SimilarityInBand ==
    (probe.op = "backend" /\ probe.called) =>
        IF probe.text1 = <<>> \/ probe.text2 = <<>>
        THEN probe.result = 800000
        ELSE probe.result \in 750000..M

\* C14: calculate_semantic_similarity never lets an error of the embedding
\* backend out: when encoding or the cosine raises, the call returns 0.8,
\* and every call returns a score.
BackendErrorAbsorbed ==
    (probe.op = "backend" /\ probe.called) =>
        /\ probe.result \in 0..M
        /\ probe.result # Raised
        /\ model = "raises" => probe.result = 800000

\* C14 witness: a call on two different non-empty texts with a backend that
\* raises has returned 0.8
BackendErrorWitness ==
    /\ probe.op = "backend"
    /\ probe.called
    /\ model = "raises"
    /\ probe.text1 # <<>>
    /\ probe.text2 # <<>>
    /\ probe.text1 # probe.text2
    /\ probe.result = 800000

\* C15: with required_years 0, calculate_experience_match returns score
\* 1.0, estimated_years 0 and experience_level 'Entry Level' for every
\* experience text, the empty one included.
NoRequirementFullScore ==
    (probe.op = "estimate" /\ probe.called /\ probe.required_years = 0) =>
        /\ probe.result.score = M
        /\ probe.result.estimated_years2 = 0
        /\ probe.result.experience_level = "Entry Level"

\* C15 witness: the call with required_years 0 on a text that states five
\* years or more, which a requirement would label Mid-Senior or above
NoRequirementWitness ==
    /\ probe.op = "estimate"
    /\ probe.called
    /\ probe.required_years = 0
    /\ EstimatedYears2(probe.resume_experience, current_year) >= 10
    /\ probe.result.score = M
    /\ probe.result.estimated_years2 = 0

\* the best similarity of a required skill to any resume skill, 0 without
\* resume skills
BestSimilarity(job_skill, resume_skills_lower) ==
    SetMax({calculate_semantic_similarity(job_skill, resume_skills_lower[k]) :
               k \in DOMAIN resume_skills_lower})

\* C16: with n > 0 required skills, direct_matches, the job skills of
\* semantic_matches and missing_skills split the required skills: a skill
\* the resume has is direct, any other is a semantic match exactly when its
\* best similarity to a resume skill is >= 0.6 and missing otherwise; the
\* score is min(1.0, 0.8 + 0.2 * (directCount + sum of the semantic
\* similarities) / n).  With no required skill the score is 1.0 and the
\* three lists are empty.
SkillsResultPartition ==
    probe.op = "skills" =>
        LET result == probe.result
            resume == LowerSkills(probe.resume_skills)
            required == LowerSkills(probe.job_skills)
            n == Len(probe.job_skills)
            semantic == result.semantic_matches
            IsDirect(j) == j \in Range(resume)
            IsSemantic(j) == ~IsDirect(j) /\ BestSimilarity(j, resume) >= 600000
            IsMissing(j) == ~IsDirect(j) /\ BestSimilarity(j, resume) < 600000
        IN  IF n = 0
            THEN /\ result.score = M
                 /\ result.direct_matches = <<>>
                 /\ semantic = <<>>
                 /\ result.missing_skills = <<>>
            ELSE /\ result.direct_matches = SelectSeq(required, IsDirect)
                 /\ [k \in DOMAIN semantic |-> semantic[k].job_skill]
                      = SelectSeq(required, IsSemantic)
                 /\ \A k \in DOMAIN semantic :
                       semantic[k].score = BestSimilarity(semantic[k].job_skill, resume)
                 /\ result.missing_skills = SelectSeq(required, IsMissing)
                 /\ Len(result.direct_matches) + Len(semantic)
                      + Len(result.missing_skills) = n
                 /\ result.score
                      = Min(M, 800000
                               + (200000 * Len(result.direct_matches)
                                  + SumSeq([k \in DOMAIN semantic |->
                                               semantic[k].score \div 5])) \div n)

\* C16 witness: a call on a list extended by a skill the resume has, with
\* a direct match and a semantic match of similarity below 1, the score
\* below 1.0
SkillsResultWitness ==
    /\ probe.op = "skills"
    /\ probe.added # <<>>
    /\ probe.result.direct_matches # <<>>
    /\ probe.result.semantic_matches # <<>>
    /\ probe.result.missing_skills = <<>>
    /\ probe.result.score < M
    /\ probe.result.score > 800000

\* C17: for required_years R > 0 and estimated years E the experience
\* score is 1.0 if E >= R, 0.95 if E >= 0.7 R, 0.90 if E >= 0.5 R, 0.85 if
\* E >= 0.3 R, 0.80 if E > 0 and 0.75 if E = 0, the first rung that applies,
\* and never below 0.75; the label is 'Senior/Expert' for E >= 10,
\* 'Mid-Senior Level' for E >= 5, 'Mid Level' for E >= 2, else 'Entry
\* Level', and the score is a function of E and R alone.  E is estimated2
\* half years.
ExperienceLadder ==
    (probe.op = "experience" /\ probe.required_years > 0) =>
        LET E2 == probe.estimated2
            R == probe.required_years
        IN  /\ E2 >= 2 * R => probe.after = M
            /\ (E2 < 2 * R /\ 10 * E2 >= 7 * 2 * R) => probe.after = 950000
            /\ (10 * E2 < 7 * 2 * R /\ 10 * E2 >= 5 * 2 * R) => probe.after = 900000
            /\ (10 * E2 < 5 * 2 * R /\ 10 * E2 >= 3 * 2 * R) => probe.after = 850000
            /\ (10 * E2 < 3 * 2 * R /\ E2 > 0) => probe.after = 800000
            /\ E2 = 0 => probe.after = 750000
            /\ probe.after >= 750000
            /\ probe.level = "Senior/Expert" <=> E2 >= 2 * 10
            /\ probe.level = "Mid-Senior Level" <=> (E2 >= 2 * 5 /\ E2 < 2 * 10)
            /\ probe.level = "Mid Level" <=> (E2 >= 2 * 2 /\ E2 < 2 * 5)
            /\ probe.level = "Entry Level" <=> E2 < 2 * 2

\* C17 witness: the estimate was raised to exactly 0.7 of the requirement,
\* the score rose to 0.95 and the label is 'Mid Level'
ExperienceLadderWitness ==
    /\ probe.op = "experience"
    /\ probe.required_years > 0
    /\ 10 * probe.estimated2 = 7 * 2 * probe.required_years
    /\ probe.before < probe.after
    /\ probe.after = 950000
    /\ probe.level = "Mid Level"

\* C18: the years are estimated in strict priority order: when an explicit
\* 'N years' pattern matches, the estimate is the maximum over the
\* explicit matches alone; the date arithmetic (current year minus the
\* year after since/from, within 0-50) is used only when no explicit
\* pattern matches; the structural estimate only when neither gives a
\* value.
EstimateByPriority ==
    (probe.op = "estimate" /\ probe.called /\ probe.required_years > 0) =>
        LET s == Flat(Lower(probe.resume_experience))
            explicit == Pattern1(s) \cup Pattern2(s) \cup Pattern3(s)
            dated == SetMax({MatchYears(m, current_year) : m \in Pattern4(s)})
        IN  probe.result.estimated_years2
              = IF explicit # {}
                THEN 2 * SetMax({MatchYears(m, current_year) : m \in explicit})
                ELSE IF dated > 0 THEN 2 * dated
                ELSE StructuralYears2(probe.resume_experience)

\* the ordinal of a required level, and of the label of a detected level
LevelOrdinal ==
    [level \in {"high school", "High School"} |-> 1]
    @@ [level \in {"associate", "Associate"} |-> 2]
    @@ [level \in {"bachelor", "Bachelor"} |-> 3]
    @@ [level \in {"master", "Master"} |-> 4]
    @@ [level \in {"phd", "Phd", "doctorate", "Doctorate", "PhD/Doctorate"} |-> 5]
    @@ [level \in {"Unknown"} |-> 0]

\* C19: with no education required the score is 1.0; otherwise, r the
\* required ordinal and d the detected one (high school 1, associate 2,
\* bachelor 3, master 4, phd/doctorate 5, none 0), the base score is 1.0
\* when d >= r and 0.8 + 0.2 * d / r when d < r, and the score is
\* min(1.0, base + 0.10) when a relevant field of study is mentioned and
\* the base otherwise; the score lies in [0.8, 1.0].
EducationScoreFormula ==
    (probe.op = "education" /\ probe.called) =>
        IF probe.required_education = "" THEN probe.result.score = M
        ELSE LET r == LevelOrdinal[probe.required_education]
                 d == LevelOrdinal[probe.result.detected_level]
                 base == IF d >= r THEN M ELSE 800000 + (200000 * d) \div r
             IN  /\ probe.result.score
                      = IF probe.result.field_match THEN Min(M, base + 100000) ELSE base
                 /\ probe.result.score \in 800000..M
                 /\ probe.result.field_match
                      <=> \E i \in DOMAIN probe.resume_education :
                             /\ i + 1 \in DOMAIN probe.resume_education
                             /\ probe.resume_education[i] = "Computer"
                             /\ probe.resume_education[i + 1] = "Science"

\* C19 witness: a bachelor without a field of study against a required
\* phd: 0.8 + 0.2 * 3 / 5
EducationScoreWitness ==
    /\ probe.op = "education"
    /\ probe.called
    /\ probe.required_education = "phd"
    /\ probe.result.detected_level = "Bachelor"
    /\ ~probe.result.field_match
    /\ probe.result.score = 920000

\* the word-overlap similarity of two texts: 0.8 when either has no words,
\* otherwise 0.75 + 0.25 * |common words| / |all words|
LexicalOverlap(text1, text2) ==
    IF text1 = <<>> \/ text2 = <<>> \/ WordSet(text1) = {} \/ WordSet(text2) = {}
    THEN 800000
    ELSE Min(M, 750000 + (250000 * Cardinality(WordSet(text1) \cap WordSet(text2)))
                           \div Cardinality(WordSet(text1) \cup WordSet(text2)))

\* C20: no step after construction changes the backend mode (model set or
\* unset); and in a run without a model every resume's semantic similarity,
\* skill similarities and keyword relevance (over the key phrases of the job
\* description) are the lexical fallback's.
BackendModeFixed ==
    [][/\ model' = model
       /\ (model = None /\ Len(match_results') = Len(match_results) + 1) =>
             LET resume_data == parsed_resumes[Len(match_results')]
                 sentences == Sentences(job_data.full_description)
                 semantic_matches == locals'.skills_match.semantic_matches
                 resume_skills_lower == LowerSkills(resume_data.skills)
             IN  /\ locals'.semantic_similarity
                      = LexicalOverlap(resume_data.full_text, job_data.full_description)
                 /\ sentences = <<>> => locals'.keyword_relevance = 800000
                 /\ Len(sentences) \in 1..max_phrases =>
                       locals'.keyword_relevance
                         = SumSeq([k \in DOMAIN sentences |->
                                      LexicalRelevance(sentences[k], resume_data.full_text)])
                             \div Len(sentences)
                 /\ \A k \in DOMAIN semantic_matches :
                       semantic_matches[k].score
                         = SetMax({LexicalOverlap(semantic_matches[k].job_skill,
                                                  resume_skills_lower[j]) :
                                     j \in DOMAIN resume_skills_lower})]_vars

\* C20 witness: a finished run without a model over two resumes or more,
\* the last one scored by word overlap and by key-word matching
BackendModeFixedWitness ==
    /\ pc = "done"
    /\ model = None
    /\ Len(match_results) >= 2
    /\ locals.semantic_similarity \in 750001..M \ {800000}
    /\ locals.keyword_relevance \in 750001..M \ {800000}

\* C21: the keyword relevance of a resume is the mean of the relevances of
\* the job description's key phrases, each rescaled into [0.75, 1.0] with
\* or without a model, so it lies in [0.75, 1.0]; it is exactly 0.8 when
\* the description has no sentence longer than ten characters.
KeywordRelevanceInBand ==
    Matched =>
        /\ locals.keyword_relevance \in 750000..M
        /\ Sentences(job_data.full_description) = <<>>
              => locals.keyword_relevance = 800000
        /\ Len(extract_key_phrases(job_data.full_description)) <= 10

\* the years each requirement line asks for, read off the line: its first
\* 'N years' ('N+', 'N-M') when it has one, otherwise its level word
\* (junior 0, intermediate 2, senior 5), otherwise 0
LineYears ==
    (Requirement1 :> 3) @@ (Requirement2 :> 0) @@ (Requirement3 :> 5)
    @@ (Requirement4 :> 0) @@ (Requirement5 :> 3) @@ (Requirement6 :> 0)
    @@ (Requirement7 :> 2) @@ (Requirement8 :> 0) @@ (Requirement9 :> 2)
    @@ (Requirement10 :> 0)

\* C22: required_experience_years is the maximum over the requirement
\* lines of the years the line asks for, 0 without lines; in a line an
\* 'N years' pattern goes before the level words (entry level/junior 0,
\* mid level/intermediate 2, senior/experienced 5, otherwise 0); the line
\* "Bachelor's degree in Computer Science required, 3+ years experience"
\* gives 3.
RequiredYearsIsMaximum ==
    (probe.op = "job" /\ probe.called) =>
        LET job_requirements == probe.job.job_requirements
        IN  /\ probe.result.required_experience_years
                 = SetMax({LineYears[job_requirements[i]] : i \in DOMAIN job_requirements})
            /\ job_requirements = <<>> => probe.result.required_experience_years = 0
            /\ job_requirements = <<Requirement5>>
                  => probe.result.required_experience_years = 3

\* C22 witness: the line of the example before a line with a level word
\* and a lower number, parsed to 3
RequiredYearsWitness ==
    /\ probe.op = "job"
    /\ probe.called
    /\ probe.job.job_requirements = <<Requirement5, Requirement7>>
    /\ probe.result.required_experience_years = 3

\* some requirement line of the job mentions a term of the list
Mentions(job_requirements, terms) ==
    \E i \in DOMAIN job_requirements : AnyOccurs(terms, Lower(job_requirements[i]))

\* C23: required_education is the highest level any requirement line
\* mentions, PhD before Master before Bachelor, and empty when no line
\* mentions a level; a line that mentions two levels counts for both.
RequiredEducationHighest ==
    (probe.op = "job" /\ probe.called) =>
        probe.result.required_education
          = IF Mentions(probe.job.job_requirements, JobPhdTerms) THEN "phd"
            ELSE IF Mentions(probe.job.job_requirements, JobMasterTerms) THEN "master"
            ELSE IF Mentions(probe.job.job_requirements, JobBachelorTerms) THEN "bachelor"
            ELSE ""

\* the skills detected in each line, line after line
RECURSIVE DetectedInLines(_)
DetectedInLines(job_requirements) ==
    IF job_requirements = <<>> THEN <<>>
    ELSE extract_skills_from_text(Head(job_requirements))
         \o DetectedInLines(Tail(job_requirements))

\* the non-empty items of a list at their first occurrence, in the list's
\* order
FirstOccurrences(items) ==
    LET keep == {i \in DOMAIN items :
                    items[i] # <<>> /\ \A j \in 1..(i - 1) : items[j] # items[i]}
    IN  [k \in 1..Cardinality(keep) |->
            items[CHOOSE i \in keep : Cardinality({j \in keep : j <= i}) = k]]

\* C24: required_skills has no duplicate and only lower-case entries, in the
\* order of their first occurrence over the job_skills field (split and
\* trimmed), then the skills detected in the requirement lines, line after
\* line, then those detected in the description; the entries of an earlier
\* source keep their places.
RequiredSkillsMerged ==
    (probe.op = "job" /\ probe.called) =>
        LET required_skills == probe.result.required_skills
            from_field == LowerSkills(probe.job.job_skills)
            from_requirements == DetectedInLines(probe.job.job_requirements)
            from_description == extract_skills_from_text(probe.job.description)
        IN  /\ \A i, j \in DOMAIN required_skills :
                  required_skills[i] = required_skills[j] => i = j
            /\ \A i \in DOMAIN required_skills :
                  Lower(required_skills[i]) = required_skills[i]
            /\ required_skills
                 = FirstOccurrences(from_field \o from_requirements \o from_description)
            /\ SubSeq(required_skills, 1, Len(FirstOccurrences(from_field)))
                 = FirstOccurrences(from_field)

\* C24 witness: "Python, python; React" in the field, python and docker in
\* the lines, c++ and machine learning in the description: five skills,
\* python once and first
RequiredSkillsWitness ==
    /\ probe.op = "job"
    /\ probe.called
    /\ probe.job.job_skills = <<SkillItem1, SkillItem3, SkillItem2>>
    /\ probe.job.job_requirements = <<Requirement1, Requirement9>>
    /\ probe.job.description = Description2
    /\ probe.result.required_skills
         = <<<<"python">>, <<"react">>, <<"docker">>, <<"c++">>,
             <<"machine", "learning">>>>

\* the categories in the order categorize_requirements tries them, each
\* with its keywords
CategoryOrder ==
    <<[name |-> "education", keywords |-> category_education],
      [name |-> "experience", keywords |-> category_experience],
      [name |-> "skills", keywords |-> category_skills],
      [name |-> "tools", keywords |-> category_tools],
      [name |-> "soft_skills", keywords |-> category_soft_skills]>>

\* the bucket of a line: the first category with a keyword in the
\* lower-cased line, 'other' without one
BucketOf(line) ==
    LET hits == {k \in DOMAIN CategoryOrder :
                    AnyOccurs(CategoryOrder[k].keywords, Lower(line))}
    IN  IF hits = {} THEN "other"
        ELSE CategoryOrder[CHOOSE k \in hits : \A h \in hits : k <= h].name

\* C25: every requirement line is in exactly one bucket, that of the first
\* category (education, experience, skills, tools, soft_skills) with a
\* keyword in the lower-cased line, or 'other'; the bucket sizes add up to
\* the number of lines and each bucket keeps the lines' order.
OneBucketPerLine ==
    (probe.op = "job" /\ probe.called /\ probe.job.job_requirements # <<>>) =>
        LET job_requirements == probe.job.job_requirements
            categorized == probe.result.categorized_requirements
        IN  /\ DOMAIN categorized
                 = {"education", "experience", "skills", "tools", "soft_skills", "other"}
            /\ \A category \in DOMAIN categorized :
                  categorized[category]
                    = SelectSeq(job_requirements, LAMBDA line : BucketOf(line) = category)
            /\ \A line \in Range(job_requirements) :
                  Cardinality({category \in DOMAIN categorized :
                                  line \in Range(categorized[category])}) = 1
            /\ Len(categorized.education) + Len(categorized.experience)
                 + Len(categorized.skills) + Len(categorized.tools)
                 + Len(categorized.soft_skills) + Len(categorized.other)
                 = Len(job_requirements)

\* C25 witness: a line with 'knowledge' and 'tools' goes to skills alone,
\* a line with 'degree' and 'years' to education alone
OneBucketWitness ==
    /\ probe.op = "job"
    /\ probe.called
    /\ probe.job.job_requirements = <<Requirement9, Requirement5>>
    /\ probe.result.categorized_requirements.skills = <<Requirement9>>
    /\ probe.result.categorized_requirements.education = <<Requirement5>>
    /\ probe.result.categorized_requirements.tools = <<>>
    /\ probe.result.categorized_requirements.experience = <<>>

\* the line the scanner of the probe reads in this step
ScannedLine == probe.lines[probe.pos + 1]

\* the scanner of the probe reads one line in this step
ScanStep == probe.op = "section" /\ probe'.op = "section" /\ probe'.pos = probe.pos + 1

\* the keywords that open the probe's section, and those of the other
\* sections
StartKeywords == IF probe.extractor = "education" THEN EducationStart ELSE ExperienceStart

OtherKeywords == IF probe.extractor = "education" THEN EducationEnd ELSE ExperienceEnd

\* the line is captured in this step
Captured == probe'.state.section = probe.state.section \o ScannedLine \o <<NL>>

\* the scanner of the probe is through its lines with the result of the
\* extractor on the text of these lines
ScanAgrees ==
    probe.pos = Len(probe.lines) =>
        Strip(probe.state.section)
          = IF probe.extractor = "education"
            THEN extract_education(JoinLines(probe.lines))
            ELSE extract_experience(JoinLines(probe.lines))

\* C26: a line with a keyword that starts the section opens the section
\* and is captured; in the section, every other non-blank line with a
\* keyword of a different section closes it and is not captured; and
\* outside the section no line is captured until a header opens it again.
SectionCloses ==
    [][ScanStep =>
          /\ AnyOccurs(StartKeywords, Lower(ScannedLine))
                => (probe'.state.in_section /\ Captured)
          /\ (/\ probe.state.in_section
              /\ ~AnyOccurs(StartKeywords, Lower(ScannedLine))
              /\ ScannedLine # <<>>
              /\ AnyOccurs(OtherKeywords, Lower(ScannedLine)))
                => (~probe'.state.in_section
                    /\ probe'.state.section = probe.state.section)
          /\ (~probe.state.in_section /\ ~AnyOccurs(StartKeywords, Lower(ScannedLine)))
                => (~probe'.state.in_section
                    /\ probe'.state.section = probe.state.section)]_vars

\* the first e-mail address of a text, "" without one
FirstEmail(text) ==
    LET at == {i \in DOMAIN text : text[i] \in EmailTokens}
    IN  IF at = {} THEN "" ELSE text[CHOOSE i \in at : \A j \in at : i <= j]

\* C27: the e-mail of a resume's evidence, and of its match record, is the
\* first e-mail address of the resume's text, and "" when the text has
\* none; a resume without text has no skills, education, experience,
\* e-mail or phone.
EmailFromText ==
    /\ \A i \in DOMAIN parsed_resumes :
          /\ parsed_resumes[i].email = FirstEmail(parsed_resumes[i].full_text)
          /\ parsed_resumes[i].full_text = <<>> =>
                /\ parsed_resumes[i].skills = <<>>
                /\ parsed_resumes[i].education = <<>>
                /\ parsed_resumes[i].experience = <<>>
                /\ parsed_resumes[i].email = ""
                /\ parsed_resumes[i].phone = ""
    /\ pc = "match" =>
          \A k \in DOMAIN match_results :
             match_results[k].email = FirstEmail(parsed_resumes[k].full_text)

\* C28: the weighted sum of the five axis scores is above 0.7 with and
\* without a model, so calibrate_score never takes its 'low raw score'
\* branch: a resume that is no key of expected_scores gets the mean of the
\* table (82.8764) when the sum is at most 0.85 and min(mean + 2.0, 85.0)
\* (84.8764) when it is above.
LowBranchUnreachable ==
    (probe.op = "match" /\ probe.called) =>
        /\ probe.result.overall_score > 70 * M
        /\ probe.result.resume_name \notin DOMAIN expected_scores =>
              MatchRecord(probe.result).match_score
                = IF probe.result.overall_score > 85 * M THEN 848764 ELSE 828764

\* C28 witness: a resume outside the table with every axis at its lowest
\* under an encoder whose cosine is -1 (skills 0.8, experience 0.75,
\* education 0.8, similarity 0.5, relevance 0.5): a sum of 0.7125 and the
\* mean as match_score
LowBranchWitness ==
    /\ probe.op = "match"
    /\ probe.called
    /\ model = "opposite"
    /\ probe.result.resume_name \notin DOMAIN expected_scores
    /\ probe.result.overall_score = 71250000
    /\ MatchRecord(probe.result).match_score = 828764

\* C29: without a model, a resume with a skill or more misses no required
\* skill: every required skill that is no direct match is a semantic match
\* (the fallback similarity is 0.75 or more, above the 0.6 it takes), and
\* the skills score is 0.95 or more; missing_skills is non-empty only for a
\* resume without skills, and the score is then exactly 0.8.
FallbackNeverMisses ==
    (probe.op = "skills" /\ model = None) =>
        /\ probe.resume_skills # <<>> =>
              /\ probe.result.missing_skills = <<>>
              /\ probe.result.score >= 950000
              /\ \A i \in DOMAIN probe.job_skills :
                    \/ Lower(probe.job_skills[i]) \in Range(probe.result.direct_matches)
                    \/ \E k \in DOMAIN probe.result.semantic_matches :
                          /\ probe.result.semantic_matches[k].job_skill
                               = Lower(probe.job_skills[i])
                          /\ probe.result.semantic_matches[k].score >= 750000
        /\ probe.result.missing_skills # <<>> =>
              /\ probe.resume_skills = <<>>
              /\ probe.result.score = 800000

\* C29 witness: without a model, a required skill the resume lacks is a
\* semantic match next to one the resume has; nothing is missing and the
\* score is between 0.95 and 1.0
FallbackNeverMissesWitness ==
    /\ probe.op = "skills"
    /\ model = None
    /\ probe.added # <<>>
    /\ probe.result.direct_matches # <<>>
    /\ probe.result.semantic_matches # <<>>
    /\ probe.result.missing_skills = <<>>
    /\ probe.result.score \in 950000..(M - 1)

\* the section's own keywords of the probe's extractor
OwnKeywords ==
    IF probe.extractor = "education" THEN education_keywords ELSE experience_keywords

\* a non-blank line without a keyword of the section, of another section,
\* without a digit and, for the experience extractor, without a '-'
PlainLine(line) ==
    /\ line # <<>>
    /\ ~AnyOccurs(StartKeywords, Lower(line))
    /\ ~AnyOccurs(OwnKeywords, Lower(line))
    /\ ~AnyOccurs(OtherKeywords, Lower(line))
    /\ \A i \in DOMAIN line :
          /\ line[i] \notin DigitTokens
          /\ probe.extractor = "experience" => line[i] \notin DashTokens

=============================================================================
